---- MODULE Spec2Model ----
(***************************************************************************)
(* MediTrack: appointment booking, appointment lifecycle, prescription     *)
(* authoring and feedback collection, as client-side views over a shared   *)
(* document store (collections appointments, prescriptions, feedback).     *)
(*                                                                         *)
(* The store is the only shared state.  Every view keeps React state of    *)
(* its own and talks to the store through awaited calls; each await is a   *)
(* point where other views (and other handlers of the same view) may run.  *)
(* A write or a query "in flight" is a call whose promise has not settled. *)
(***************************************************************************)
EXTENDS Integers, Sequences, FiniteSets, TLC

(***************************************************************************)
(* Bounds of the model.                                                    *)
(***************************************************************************)
MaxAppts == 3
MaxTicks == 2
MaxPrescriptions == 2
MaxFeedback == 2
MaxMeds == 2
MaxInFlight == 2
MaxManaged == 2
MaxShared == 1
MaxReviews == 4

(***************************************************************************)
(* Program constant: the daily cap of BookAppointment.handleSubmit.        *)
(***************************************************************************)
MaxPerDay == 2

(***************************************************************************)
(* Identities.                                                             *)
(***************************************************************************)
Patients == {"p1", "p2"}
Doctors == {"d1", "d2"}
Sessions == {"s1", "s2"}
Views == {"v1", "v2"}
FViews == {"f1", "f2"}

Status == {"pending", "confirmed", "in_progress", "completed", "cancelled"}

(***************************************************************************)
(* Time.  now is the instant in hours since the epoch; offset is the       *)
(* client's UTC offset in hours (local = UTC + offset).  A date string     *)
(* 'YYYY-MM-DD' is the number of its day; the empty string is NoDate.      *)
(***************************************************************************)
NoDate == 0
StartDay == 3
Offsets == {-12, -5, 0, 14}
StartHours == {1, 12, 23}

\* new Date().toISOString().split('T')[0]: the calendar date in UTC
UtcDate(t) == t \div 24

\* the calendar date on the client's clock
LocalDate(t, off) == (t + off) \div 24

\* new Date('YYYY-MM-DD'): a date-only string parses as midnight UTC
ParseDate(d) == d * 24

\* today = new Date(); today.setHours(0,0,0,0): midnight of the local day
LocalMidnight(t, off) == LocalDate(t, off) * 24 - off

VARIABLES
    appointments,   \* store: sequence of appointment documents, id = index
    prescriptions,  \* store: sequence of prescription documents
    feedback,       \* store: sequence of feedback documents
    now,            \* the clock, hours
    offset,         \* the client's UTC offset, hours
    sessUser,       \* BookAppointment: userData.uid of each session
    todayBookings,  \* BookAppointment: cached count
    bkLoading,      \* BookAppointment: loading
    bkSuccess,      \* BookAppointment: success
    bkError,        \* BookAppointment: error
    bkWrite,        \* BookAppointment: the addDoc in flight, or NoWrite
    bkCount,        \* BookAppointment: checkTodayBookings queries in flight
    ticks,          \* number of clock steps taken
    viewUser,       \* ManageAppointments: userData.uid of each view
    mLoading,       \* ManageAppointments: loading
    mAppts,         \* ManageAppointments: appointments, id -> displayed status
    updating,       \* ManageAppointments: updating (an id, or NoId for null)
    mWrites,        \* ManageAppointments: updateDoc calls in flight, oldest first
    mFetch,         \* ManageAppointments: fetchAppointments calls in flight
    selectedAppointment,  \* ManageAppointments: selectedAppointment (id or NoId)
    showPrescriptionForm, \* ManageAppointments: showPrescriptionForm
    rxDiagnosis,    \* PrescriptionForm: diagnosis
    rxMeds,         \* PrescriptionForm: medications
    rxLoading,      \* PrescriptionForm: loading
    rxWrites,       \* PrescriptionForm: addDoc calls in flight, oldest first
    fbUser,         \* PatientFeedback: userData.uid of each view
    fbLoading,      \* PatientFeedback: loading
    fbStage,        \* PatientFeedback: the await fetchData is at
    completedAppointments, \* PatientFeedback: completedAppointments (ids)
    existingFeedback,      \* PatientFeedback: existingFeedback
    fbSelected,     \* PatientFeedback: selectedAppointment (id or NoId)
    rating,         \* PatientFeedback: rating
    comment,        \* PatientFeedback: comment
    submitting,     \* PatientFeedback: submitting
    showSuccess,    \* PatientFeedback: showSuccess
    fbWrite,        \* PatientFeedback: the addDoc in flight, or NoFeedback
    dfQuery,        \* DoctorFeedback: the documents the query in flight returns
    dfFeedback,     \* DoctorFeedback: feedback
    dfStats,        \* DoctorFeedback: stats
    dfLoading,      \* DoctorFeedback: loading
    dpUser,         \* DoctorPrescriptions: userData.uid
    dpStage,        \* DoctorPrescriptions: the await fetchPrescriptions is at
    dpIds,          \* DoctorPrescriptions: appointmentIds
    dpSnapshot,     \* DoctorPrescriptions: the documents of prescriptionsSnapshot
    dpPrescriptions, \* DoctorPrescriptions: prescriptions
    vpUser,         \* ViewPrescriptions: userData.uid
    vpLoading,      \* ViewPrescriptions: loading
    vpPrescriptions, \* ViewPrescriptions: prescriptions
    currentUser,    \* AuthContext: currentUser, or NoUser
    userData,       \* AuthContext: the role of userData, or "undefined"
    location,       \* Router: the path shown in the address bar
    origin,         \* Router: the path the user asked for
    hops,           \* Router: redirects since the user asked for origin
    rendered,       \* Router: the page rendered, or "none" before the route is resolved
    ddUser,         \* DoctorDashboard: userData.uid
    ddLoading,      \* DoctorDashboard: loading
    ddFetch,        \* DoctorDashboard: the fetches in flight
    ddAppointments, \* DoctorDashboard: appointments, id -> status
    ddFeedback,     \* DoctorDashboard: feedback
    ddStats,        \* DoctorDashboard: stats
    pdUser,         \* PatientDashboard: userData.uid
    pdLoading,      \* PatientDashboard: loading
    pdFetch,        \* PatientDashboard: the fetches in flight
    pdAppointments, \* PatientDashboard: appointments, id -> status
    pdPrescriptions, \* PatientDashboard: prescriptions
    pdStats,        \* PatientDashboard: stats
    event           \* the handler that ran last, with its inputs and outcome

storeVars == <<appointments, prescriptions, feedback>>
clockVars == <<now, offset, ticks>>
bookingVars == <<sessUser, todayBookings, bkLoading, bkSuccess, bkError, bkWrite, bkCount>>
manageVars == <<viewUser, mLoading, mAppts, updating, mWrites, mFetch, selectedAppointment,
                showPrescriptionForm>>
formVars == <<rxDiagnosis, rxMeds, rxLoading, rxWrites>>
doctorVars == <<manageVars, formVars>>
feedbackVars == <<fbUser, fbLoading, fbStage, completedAppointments, existingFeedback,
                  fbSelected, rating, comment, submitting, showSuccess, fbWrite>>

statsVars == <<dfQuery, dfFeedback, dfStats, dfLoading>>
recordVars == <<dpUser, dpStage, dpIds, dpSnapshot, dpPrescriptions,
                vpUser, vpLoading, vpPrescriptions>>
routeVars == <<currentUser, userData, location, origin, hops, rendered>>
dashVars == <<ddUser, ddLoading, ddFetch, ddAppointments, ddFeedback, ddStats,
              pdUser, pdLoading, pdFetch, pdAppointments, pdPrescriptions, pdStats>>
readVars == <<statsVars, recordVars, routeVars, dashVars>>

NoWrite == [patientId |-> "", doctorId |-> "", doctorName |-> "", date |-> NoDate,
            time |-> "", note |-> "", status |-> ""]
NoEvent == [op |-> "none"]
NoId == 0

(***************************************************************************)
(* Store queries.                                                          *)
(***************************************************************************)
Ids(seq) == 1..Len(seq)

\* a count that leaves cancelled appointments out
CountOnDateActive(appts, uid, day) ==
    Cardinality({i \in Ids(appts) : appts[i].patientId = uid /\ appts[i].date = day
                                      /\ appts[i].status # "cancelled"})

\* query(appointments, where patientId == uid, where date == day).size
CountOnDate(appts, uid, day) ==
    Cardinality({i \in Ids(appts) : appts[i].patientId = uid /\ appts[i].date = day})

\* writes to the appointments collection that are in flight
InFlightBookings == Cardinality({s \in Sessions : bkWrite[s] # NoWrite})

(***************************************************************************)
(* BookAppointment                                                         *)
(***************************************************************************)

\* a cap check that reads the store when the form is submitted
CapReachedFresh(s) ==
    CountOnDate(appointments, sessUser[s], UtcDate(now)) >= MaxPerDay

\* handleSubmit, first check: the cached count against the cap
CapReached(s) == todayBookings[s] >= MaxPerDay

\* handleSubmit, second check: !doctorId || !date || !time
MissingField(doctorId, date, time) == doctorId = "" \/ date = NoDate \/ time = ""

\* a past-date check that takes the selected day to last until its end
IsPastEndOfDay(date, t, off) == ParseDate(date) + 24 < LocalMidnight(t, off)

\* handleSubmit, third check: selectedDate < today
IsPast(date, t, off) == ParseDate(date) < LocalMidnight(t, off)

\* doctors.find(doc => doc.id === formData.doctorId)?.name, with the names
\* fetchDoctors read from the profiles of the doctors
NameOf(doctorId) ==
    CASE doctorId = "d1" -> "Dr One"
      [] doctorId = "d2" -> "Dr Two"
      [] OTHER -> "undefined"

\* a document that is stored as already confirmed
NewAppointmentConfirmed(s, doctorId, date, time, note) ==
    [patientId |-> sessUser[s], doctorId |-> doctorId, doctorName |-> NameOf(doctorId),
     date |-> date, time |-> time, note |-> note, status |-> "confirmed"]

\* the document handleSubmit hands to addDoc
NewAppointment(s, doctorId, date, time, note) ==
    [patientId |-> sessUser[s], doctorId |-> doctorId, doctorName |-> NameOf(doctorId),
     date |-> date, time |-> time, note |-> note, status |-> "pending"]

\* checks that leave out the one for required fields
SubmitOutcomeNoRequired(s, doctorId, date, time) ==
    IF CapReached(s) THEN "cap"
    ELSE IF IsPast(date, now, offset) THEN "past"
    ELSE "accepted"

\* the outcome of handleSubmit's checks, in the order of the code
SubmitOutcome(s, doctorId, date, time) ==
    IF CapReached(s) THEN "cap"
    ELSE IF MissingField(doctorId, date, time) THEN "required"
    ELSE IF IsPast(date, now, offset) THEN "past"
    ELSE "accepted"

\* handleSubmit up to its await of addDoc.  The form is rendered only while
\* success is false and its button is disabled while loading.
HandleSubmit(s, doctorId, date, time, note) ==
    /\ ~bkSuccess[s]
    /\ ~bkLoading[s]
    /\ Len(appointments) + InFlightBookings < MaxAppts
    /\ LET outcome == SubmitOutcome(s, doctorId, date, time) IN
         /\ IF outcome = "accepted"
            THEN /\ bkLoading' = [bkLoading EXCEPT ![s] = TRUE]
                 /\ bkError' = [bkError EXCEPT ![s] = ""]
                 /\ bkWrite' = [bkWrite EXCEPT ![s] =
                                    NewAppointment(s, doctorId, date, time, note)]
            ELSE /\ bkError' = [bkError EXCEPT ![s] = outcome]
                 /\ UNCHANGED <<bkLoading, bkWrite>>
         /\ event' = [op |-> "handleSubmit", who |-> s, doctorId |-> doctorId,
                      date |-> date, time |-> time,
                      complete |-> ~MissingField(doctorId, date, time),
                      outcome |-> outcome]
    /\ UNCHANGED <<storeVars, clockVars, readVars, sessUser, todayBookings, bkSuccess, bkCount, doctorVars, feedbackVars>>

\* addDoc resolves: the document is stored; handleSubmit resumes, shows the
\* success screen and calls checkTodayBookings without awaiting it.
AddDocResolve(s) ==
    /\ bkWrite[s] # NoWrite
    /\ appointments' = Append(appointments, bkWrite[s])
    /\ bkSuccess' = [bkSuccess EXCEPT ![s] = TRUE]
    /\ bkCount' = [bkCount EXCEPT ![s] = Append(@, UtcDate(now))]
    /\ bkLoading' = [bkLoading EXCEPT ![s] = FALSE]
    /\ bkWrite' = [bkWrite EXCEPT ![s] = NoWrite]
    /\ event' = [op |-> "addDocResolve", who |-> s]
    /\ UNCHANGED <<prescriptions, feedback, clockVars, readVars, sessUser, todayBookings, bkError,
                   doctorVars, feedbackVars>>

\* addDoc rejects: nothing is stored; the catch block sets the error.
AddDocReject(s) ==
    /\ bkWrite[s] # NoWrite
    /\ bkError' = [bkError EXCEPT ![s] = "failed"]
    /\ bkLoading' = [bkLoading EXCEPT ![s] = FALSE]
    /\ bkWrite' = [bkWrite EXCEPT ![s] = NoWrite]
    /\ event' = [op |-> "addDocReject", who |-> s]
    /\ UNCHANGED <<storeVars, clockVars, readVars, sessUser, todayBookings, bkSuccess, bkCount, doctorVars, feedbackVars>>

\* checkTodayBookings: getDocs resolves and the size of the snapshot is cached.
\* The day asked for was computed when the query was built.
CheckTodayBookingsResolve(s) ==
    /\ bkCount[s] # <<>>
    /\ todayBookings' = [todayBookings EXCEPT ![s] =
                            CountOnDate(appointments, sessUser[s], Head(bkCount[s]))]
    /\ bkCount' = [bkCount EXCEPT ![s] = Tail(@)]
    /\ event' = [op |-> "checkTodayBookings", who |-> s]
    /\ UNCHANGED <<storeVars, clockVars, readVars, sessUser, bkLoading, bkSuccess, bkError, bkWrite,
                   doctorVars, feedbackVars>>

\* checkTodayBookings: getDocs rejects; the catch block only logs.
CheckTodayBookingsReject(s) ==
    /\ bkCount[s] # <<>>
    /\ bkCount' = [bkCount EXCEPT ![s] = Tail(@)]
    /\ event' = [op |-> "checkTodayBookingsFailed", who |-> s]
    /\ UNCHANGED <<storeVars, clockVars, readVars, sessUser, todayBookings, bkLoading, bkSuccess,
                   bkError, bkWrite, doctorVars, feedbackVars>>

\* the button of the success screen: setSuccess(false)
BookAnother(s) ==
    /\ bkSuccess[s]
    /\ bkSuccess' = [bkSuccess EXCEPT ![s] = FALSE]
    /\ event' = [op |-> "bookAnother", who |-> s]
    /\ UNCHANGED <<storeVars, clockVars, readVars, sessUser, todayBookings, bkLoading, bkError,
                   bkWrite, bkCount, doctorVars, feedbackVars>>

\* time passes
Tick ==
    /\ ticks < MaxTicks
    /\ now' = now + 12
    /\ ticks' = ticks + 1
    /\ event' = [op |-> "tick"]
    /\ UNCHANGED <<storeVars, offset, readVars, bookingVars, feedbackVars, doctorVars, feedbackVars>>

(***************************************************************************)
(* Strings that the code trims are sequences of characters.                *)
(***************************************************************************)
RECURSIVE TrimStart(_)
TrimStart(str) == IF str # <<>> /\ Head(str) = " " THEN TrimStart(Tail(str)) ELSE str

RECURSIVE TrimEnd(_)
TrimEnd(str) ==
    IF str # <<>> /\ str[Len(str)] = " " THEN TrimEnd(SubSeq(str, 1, Len(str) - 1)) ELSE str

\* String.prototype.trim
Trim(str) == TrimEnd(TrimStart(str))

(***************************************************************************)
(* ManageAppointments                                                      *)
(***************************************************************************)

\* getAvailableActions: the targets offered for a displayed status
AvailableActions(status) ==
    CASE status = "pending" -> {"confirmed", "cancelled"}
      [] status = "confirmed" -> {"in_progress", "cancelled"}
      [] status = "in_progress" -> {"completed"}
      [] OTHER -> {}

\* a snapshot of a query without its where clause
FetchedAppointmentsAll(v) ==
    [i \in Ids(appointments) |-> appointments[i].status]

\* the snapshot of fetchAppointments: where doctorId == uid
FetchedAppointments(v) ==
    [i \in {j \in Ids(appointments) : appointments[j].doctorId = viewUser[v]} |->
        appointments[i].status]

\* fetchAppointments: getDocs resolves; the list is replaced and loading ends.
FetchAppointmentsResolve(v) ==
    /\ mFetch[v] > 0
    /\ mFetch' = [mFetch EXCEPT ![v] = @ - 1]
    /\ mAppts' = [mAppts EXCEPT ![v] = FetchedAppointments(v)]
    /\ mLoading' = [mLoading EXCEPT ![v] = FALSE]
    /\ UNCHANGED <<event, storeVars, clockVars, readVars, bookingVars, feedbackVars, viewUser, updating, mWrites,
                   selectedAppointment, showPrescriptionForm, formVars>>

\* fetchAppointments: getDocs rejects; the list is kept and loading ends.
FetchAppointmentsReject(v) ==
    /\ mFetch[v] > 0
    /\ mFetch' = [mFetch EXCEPT ![v] = @ - 1]
    /\ mLoading' = [mLoading EXCEPT ![v] = FALSE]
    /\ UNCHANGED <<event, storeVars, clockVars, readVars, bookingVars, feedbackVars, viewUser, mAppts, updating, mWrites,
                   selectedAppointment, showPrescriptionForm, formVars>>

\* the action button of a row is rendered for the targets of the displayed
\* status and is disabled while updating is the row's id
ActionOffered(v, id, newStatus) ==
    /\ ~mLoading[v]
    /\ id \in DOMAIN mAppts[v]
    /\ newStatus \in AvailableActions(mAppts[v][id])
    /\ updating[v] # id

\* the updateDoc calls in flight, of all views
UpdatesInFlight ==
    LET n[S \in SUBSET Views] ==
            IF S = {} THEN 0
            ELSE LET v == CHOOSE x \in S : TRUE IN Len(mWrites[v]) + n[S \ {v}]
    IN n[Views]

\* updateAppointmentStatus up to its await of updateDoc
UpdateAppointmentStatus(v, id, newStatus) ==
    /\ ActionOffered(v, id, newStatus)
    /\ UpdatesInFlight < MaxInFlight
    /\ updating' = [updating EXCEPT ![v] = id]
    /\ mWrites' = [mWrites EXCEPT ![v] = Append(@, [id |-> id, status |-> newStatus])]
    /\ UNCHANGED <<event, storeVars, clockVars, readVars, bookingVars, feedbackVars, viewUser, mLoading, mAppts, mFetch,
                   selectedAppointment, showPrescriptionForm, formVars>>

\* prev.map(apt => apt.id === appointmentId ? {...apt, status: newStatus} : apt)
PatchList(list, id, newStatus) ==
    [i \in DOMAIN list |-> IF i = id THEN newStatus ELSE list[i]]

\* a list that is left as it is when the write succeeded
ListAfterSettleNever(list, w, ok) == list

\* a list that is patched whether or not the write succeeded
ListAfterSettleAlways(list, w, ok) == PatchList(list, w.id, w.status)

\* the list after updateDoc settles: setAppointments is inside the try, after
\* the await, so it runs only when the write succeeded
ListAfterSettle(list, w, ok) == IF ok THEN PatchList(list, w.id, w.status) ELSE list

\* updateDoc resolves: the status is stored; updateAppointmentStatus resumes,
\* patches the list and clears updating.
UpdateDocResolve(v) ==
    /\ mWrites[v] # <<>>
    /\ LET w == Head(mWrites[v]) IN
         /\ appointments' = [appointments EXCEPT ![w.id].status = w.status]
         /\ mAppts' = [mAppts EXCEPT ![v] = ListAfterSettle(@, w, TRUE)]
         /\ event' = [op |-> "updated", who |-> v, id |-> w.id, status |-> w.status]
    /\ mWrites' = [mWrites EXCEPT ![v] = Tail(@)]
    /\ updating' = [updating EXCEPT ![v] = NoId]
    /\ UNCHANGED <<prescriptions, feedback, clockVars, readVars, bookingVars, feedbackVars, viewUser, mLoading,
                   mFetch, selectedAppointment, showPrescriptionForm, formVars>>

\* updateDoc rejects: nothing is stored; the catch block logs, updating is cleared.
UpdateDocReject(v) ==
    /\ mWrites[v] # <<>>
    /\ LET w == Head(mWrites[v]) IN
         /\ mAppts' = [mAppts EXCEPT ![v] = ListAfterSettle(@, w, FALSE)]
         /\ event' = [op |-> "updateFailed", who |-> v, id |-> w.id, status |-> w.status]
    /\ mWrites' = [mWrites EXCEPT ![v] = Tail(@)]
    /\ updating' = [updating EXCEPT ![v] = NoId]
    /\ UNCHANGED <<storeVars, clockVars, readVars, bookingVars, feedbackVars, viewUser, mLoading, mFetch,
                   selectedAppointment, showPrescriptionForm, formVars>>

\* the Prescription button of a row: appointment.status === 'completed'
PrescriptionOffered(v, id) ==
    /\ ~mLoading[v]
    /\ id \in DOMAIN mAppts[v]
    /\ mAppts[v][id] = "completed"

\* handleCreatePrescription
HandleCreatePrescription(v, id) ==
    /\ PrescriptionOffered(v, id)
    /\ selectedAppointment' = [selectedAppointment EXCEPT ![v] = id]
    /\ showPrescriptionForm' = [showPrescriptionForm EXCEPT ![v] = TRUE]
    /\ UNCHANGED <<event, storeVars, clockVars, readVars, bookingVars, feedbackVars, viewUser, mLoading, mAppts, updating,
                   mWrites, mFetch, formVars>>

(***************************************************************************)
(* PrescriptionForm                                                        *)
(***************************************************************************)
MedFields == {"name", "dosage", "frequency", "duration", "instructions"}
BlankMed == [name |-> <<>>, dosage |-> "", frequency |-> "", duration |-> "",
             instructions |-> ""]

\* the form is mounted while the modal is shown
FormMounted(v) == showPrescriptionForm[v] /\ selectedAppointment[v] # NoId

\* setDiagnosis
SetDiagnosis(v, text) ==
    /\ FormMounted(v)
    /\ rxDiagnosis' = [rxDiagnosis EXCEPT ![v] = text]
    /\ UNCHANGED <<event, storeVars, clockVars, readVars, bookingVars, feedbackVars, manageVars, rxMeds, rxLoading, rxWrites>>

\* addMedication
AddMedication(v) ==
    /\ FormMounted(v)
    /\ Len(rxMeds[v]) < MaxMeds
    /\ rxMeds' = [rxMeds EXCEPT ![v] = Append(@, BlankMed)]
    /\ UNCHANGED <<event, storeVars, clockVars, readVars, bookingVars, feedbackVars, manageVars, rxDiagnosis, rxLoading,
                   rxWrites>>

\* medications.filter((_, i) => i !== index)
WithoutIndex(meds, index) ==
    [i \in 1..(Len(meds) - 1) |-> IF i < index THEN meds[i] ELSE meds[i + 1]]

\* a removeMedication without the length check
RemoveMedicationUnguarded(v, index) ==
    /\ FormMounted(v)
    /\ index \in 1..Len(rxMeds[v])
    /\ rxMeds' = [rxMeds EXCEPT ![v] = WithoutIndex(@, index)]
    /\ UNCHANGED <<event, storeVars, clockVars, readVars, bookingVars, feedbackVars, manageVars, rxDiagnosis, rxLoading,
                   rxWrites>>

\* removeMedication
RemoveMedication(v, index) ==
    /\ FormMounted(v)
    /\ index \in 1..Len(rxMeds[v])
    /\ rxMeds' = [rxMeds EXCEPT ![v] = IF Len(@) > 1 THEN WithoutIndex(@, index) ELSE @]
    /\ UNCHANGED <<event, storeVars, clockVars, readVars, bookingVars, feedbackVars, manageVars, rxDiagnosis, rxLoading,
                   rxWrites>>

\* updateMedication
UpdateMedication(v, index, field, value) ==
    /\ FormMounted(v)
    /\ index \in 1..Len(rxMeds[v])
    /\ rxMeds' = [rxMeds EXCEPT ![v] =
                     [i \in 1..Len(@) |-> IF i = index THEN [@[i] EXCEPT ![field] = value]
                                          ELSE @[i]]]
    /\ UNCHANGED <<event, storeVars, clockVars, readVars, bookingVars, feedbackVars, manageVars, rxDiagnosis, rxLoading,
                   rxWrites>>

\* a filter that keeps every entry whose name is not the empty string
HasNameUntrimmed(med) == med.name # <<>>

\* med.name.trim() is truthy
HasName(med) == Trim(med.name) # <<>>

\* medications.filter(med => med.name.trim())
RECURSIVE ValidMedications(_)
ValidMedications(meds) ==
    IF meds = <<>> THEN <<>>
    ELSE IF HasName(Head(meds)) THEN <<Head(meds)>> \o ValidMedications(Tail(meds))
    ELSE ValidMedications(Tail(meds))

\* the outcome of handleSubmit's validation
FormOutcome(v) ==
    IF Trim(rxDiagnosis[v]) = <<>> THEN "diagnosis"
    ELSE IF ValidMedications(rxMeds[v]) = <<>> THEN "medications"
    ELSE "accepted"

\* a document that carries every entry of the form
NewPrescriptionUnfiltered(v) ==
    [appointmentId |-> selectedAppointment[v],
     patientId |-> appointments[selectedAppointment[v]].patientId,
     diagnosis |-> rxDiagnosis[v],
     medications |-> rxMeds[v]]

\* the document handleSubmit hands to addDoc; appointmentId and patientId are
\* the props taken from the selected appointment
NewPrescription(v) ==
    [appointmentId |-> selectedAppointment[v],
     patientId |-> appointments[selectedAppointment[v]].patientId,
     diagnosis |-> rxDiagnosis[v],
     medications |-> ValidMedications(rxMeds[v])]

PrescriptionsInFlight ==
    LET n[S \in SUBSET Views] ==
            IF S = {} THEN 0
            ELSE LET v == CHOOSE x \in S : TRUE IN Len(rxWrites[v]) + n[S \ {v}]
    IN n[Views]

\* PrescriptionForm.handleSubmit up to its await of addDoc; the submit button
\* is disabled while loading.
FormHandleSubmit(v) ==
    /\ FormMounted(v)
    /\ ~rxLoading[v]
    /\ Len(prescriptions) + PrescriptionsInFlight < MaxPrescriptions
    /\ LET outcome == FormOutcome(v) IN
         /\ IF outcome = "accepted"
            THEN /\ rxLoading' = [rxLoading EXCEPT ![v] = TRUE]
                 /\ rxWrites' = [rxWrites EXCEPT ![v] =
                                    Append(@, [doc |-> NewPrescription(v), live |-> TRUE])]
            ELSE UNCHANGED <<rxLoading, rxWrites>>
         /\ event' = [op |-> "createPrescription", who |-> v, outcome |-> outcome]
    /\ UNCHANGED <<storeVars, clockVars, readVars, bookingVars, feedbackVars, manageVars, rxDiagnosis, rxMeds>>

\* the writes in flight of a form that is unmounted belong to no mounted form
Orphaned(writes) == [i \in 1..Len(writes) |-> [writes[i] EXCEPT !.live = FALSE]]

\* onClose: the modal is hidden and the form unmounts; the next form starts
\* from its initial state.
CloseModal(v) ==
    /\ showPrescriptionForm' = [showPrescriptionForm EXCEPT ![v] = FALSE]
    /\ selectedAppointment' = [selectedAppointment EXCEPT ![v] = NoId]
    /\ rxDiagnosis' = [rxDiagnosis EXCEPT ![v] = <<>>]
    /\ rxMeds' = [rxMeds EXCEPT ![v] = <<BlankMed>>]
    /\ rxLoading' = [rxLoading EXCEPT ![v] = FALSE]

\* the Cancel and X buttons of the form
OnClose(v) ==
    /\ FormMounted(v)
    /\ CloseModal(v)
    /\ rxWrites' = [rxWrites EXCEPT ![v] = Orphaned(@)]
    /\ UNCHANGED <<event, storeVars, clockVars, readVars, bookingVars, feedbackVars, viewUser, mLoading, mAppts, updating,
                   mWrites, mFetch>>

\* addDoc resolves: the prescription is stored; handleSubmit resumes with
\* onSuccess (fetchAppointments) and onClose.
FormAddDocResolve(v) ==
    /\ rxWrites[v] # <<>>
    /\ prescriptions' = Append(prescriptions, Head(rxWrites[v]).doc)
    /\ mFetch' = [mFetch EXCEPT ![v] = @ + 1]
    /\ CloseModal(v)
    /\ rxWrites' = [rxWrites EXCEPT ![v] = Orphaned(Tail(@))]
    /\ UNCHANGED <<event, appointments, feedback, clockVars, readVars, bookingVars, feedbackVars, viewUser, mLoading, mAppts,
                   updating, mWrites>>

\* addDoc rejects: nothing is stored; the form stays open and loading ends.
FormAddDocReject(v) ==
    /\ rxWrites[v] # <<>>
    /\ rxWrites' = [rxWrites EXCEPT ![v] = Tail(@)]
    /\ rxLoading' = [rxLoading EXCEPT ![v] = IF Head(rxWrites[v]).live THEN FALSE ELSE @]
    /\ UNCHANGED <<event, storeVars, clockVars, readVars, bookingVars, feedbackVars, manageVars, rxDiagnosis, rxMeds>>

(***************************************************************************)
(* PatientFeedback                                                         *)
(***************************************************************************)
NoFeedback == [doc |-> [appointmentId |-> NoId], captured |-> <<>>]

\* query(feedback, where patientId == uid)
RECURSIVE FeedbackOf(_, _)
FeedbackOf(docs, uid) ==
    IF docs = <<>> THEN <<>>
    ELSE IF Head(docs).patientId = uid THEN <<Head(docs)>> \o FeedbackOf(Tail(docs), uid)
    ELSE FeedbackOf(Tail(docs), uid)

\* query(appointments, where patientId == uid, where status == 'completed')
CompletedOf(uid) ==
    {i \in Ids(appointments) :
        appointments[i].patientId = uid /\ appointments[i].status = "completed"}

\* fetchData, first await: the completed appointments arrive
FetchDataAppointmentsResolve(f) ==
    /\ fbStage[f] = "appointments"
    /\ completedAppointments' = [completedAppointments EXCEPT ![f] = CompletedOf(fbUser[f])]
    /\ fbStage' = [fbStage EXCEPT ![f] = "feedback"]
    /\ UNCHANGED <<event, storeVars, clockVars, readVars, bookingVars, doctorVars, fbUser, fbLoading,
                   existingFeedback, fbSelected, rating, comment, submitting, showSuccess,
                   fbWrite>>

\* fetchData, second await: the patient's feedback arrives; loading ends
FetchDataFeedbackResolve(f) ==
    /\ fbStage[f] = "feedback"
    /\ existingFeedback' = [existingFeedback EXCEPT ![f] = FeedbackOf(feedback, fbUser[f])]
    /\ fbLoading' = [fbLoading EXCEPT ![f] = FALSE]
    /\ fbStage' = [fbStage EXCEPT ![f] = "done"]
    /\ UNCHANGED <<event, storeVars, clockVars, readVars, bookingVars, doctorVars, fbUser,
                   completedAppointments, fbSelected, rating, comment, submitting,
                   showSuccess, fbWrite>>

\* fetchData: either getDocs rejects; what was set stays, loading ends
FetchDataReject(f) ==
    /\ fbStage[f] \in {"appointments", "feedback"}
    /\ fbLoading' = [fbLoading EXCEPT ![f] = FALSE]
    /\ fbStage' = [fbStage EXCEPT ![f] = "done"]
    /\ UNCHANGED <<event, storeVars, clockVars, readVars, bookingVars, doctorVars, fbUser,
                   completedAppointments, existingFeedback, fbSelected, rating, comment,
                   submitting, showSuccess, fbWrite>>

\* hasFeedback
HasFeedback(f, id) ==
    \E i \in 1..Len(existingFeedback[f]) : existingFeedback[f][i].appointmentId = id

\* getAppointmentsWithoutFeedback
AppointmentsWithoutFeedback(f) ==
    {id \in completedAppointments[f] : ~HasFeedback(f, id)}

\* the form is rendered when loading is over and an appointment is left to review
FeedbackFormRendered(f) == ~fbLoading[f] /\ AppointmentsWithoutFeedback(f) # {}

\* onClick of a row of the form: setSelectedAppointment
SelectAppointment(f, id) ==
    /\ FeedbackFormRendered(f)
    /\ id \in AppointmentsWithoutFeedback(f)
    /\ fbSelected' = [fbSelected EXCEPT ![f] = id]
    /\ UNCHANGED <<event, storeVars, clockVars, readVars, bookingVars, doctorVars, fbUser, fbLoading,
                   fbStage, completedAppointments, existingFeedback, rating, comment,
                   submitting, showSuccess, fbWrite>>

\* onClick of a star: setRating(i + 1), i in 0..4
SetRating(f, r) ==
    /\ FeedbackFormRendered(f)
    /\ fbSelected[f] # NoId
    /\ r \in 1..5
    /\ rating' = [rating EXCEPT ![f] = r]
    /\ UNCHANGED <<event, storeVars, clockVars, readVars, bookingVars, doctorVars, fbUser, fbLoading,
                   fbStage, completedAppointments, existingFeedback, fbSelected, comment,
                   submitting, showSuccess, fbWrite>>

\* onChange of the textarea: setComment
SetComment(f, text) ==
    /\ FeedbackFormRendered(f)
    /\ fbSelected[f] # NoId
    /\ comment' = [comment EXCEPT ![f] = text]
    /\ UNCHANGED <<event, storeVars, clockVars, readVars, bookingVars, doctorVars, fbUser, fbLoading,
                   fbStage, completedAppointments, existingFeedback, fbSelected, rating,
                   submitting, showSuccess, fbWrite>>

\* a document attributed to the doctor of the patient's first completed
\* appointment
NewFeedbackFirstDoctor(f) ==
    LET first == CHOOSE id \in completedAppointments[f] :
                     \A other \in completedAppointments[f] : id <= other
    IN [appointmentId |-> fbSelected[f],
        patientId |-> fbUser[f],
        doctorId |-> appointments[first].doctorId,
        doctorName |-> appointments[first].doctorName,
        rating |-> rating[f],
        comment |-> Trim(comment[f])]

\* the document handleSubmitFeedback hands to addDoc; doctorId and doctorName
\* are those of the appointment object selected from the list
NewFeedback(f) ==
    [appointmentId |-> fbSelected[f],
     patientId |-> fbUser[f],
     doctorId |-> appointments[fbSelected[f]].doctorId,
     doctorName |-> appointments[fbSelected[f]].doctorName,
     rating |-> rating[f],
     comment |-> Trim(comment[f])]

\* a check that lets every submission through
FeedbackOutcomeAny(f) == "accepted"

\* handleSubmitFeedback's check: !selectedAppointment || rating === 0
FeedbackOutcome(f) ==
    IF fbSelected[f] = NoId \/ rating[f] = 0 THEN "rating" ELSE "accepted"

FeedbackInFlight == Cardinality({f \in FViews : fbWrite[f] # NoFeedback})

\* handleSubmitFeedback up to its await of addDoc; the submit button is
\* rendered once an appointment is selected and is disabled while submitting.
HandleSubmitFeedback(f) ==
    /\ FeedbackFormRendered(f)
    /\ fbSelected[f] # NoId
    /\ ~submitting[f]
    /\ Len(feedback) + FeedbackInFlight < MaxFeedback
    /\ IF FeedbackOutcome(f) = "rating"
       THEN UNCHANGED <<submitting, fbWrite>>
       ELSE /\ submitting' = [submitting EXCEPT ![f] = TRUE]
            /\ fbWrite' = [fbWrite EXCEPT ![f] =
                              [doc |-> NewFeedback(f), captured |-> existingFeedback[f]]]
    /\ event' = [op |-> "submitFeedback", who |-> f, outcome |-> FeedbackOutcome(f)]
    /\ UNCHANGED <<storeVars, clockVars, readVars, bookingVars, doctorVars, fbUser, fbLoading,
                   fbStage, completedAppointments, existingFeedback, fbSelected, rating,
                   comment, showSuccess>>

\* addDoc resolves: the feedback is stored; handleSubmitFeedback resumes, adds
\* the record to the list it had when it was called and resets the form.
FeedbackAddDocResolve(f) ==
    /\ fbWrite[f] # NoFeedback
    /\ feedback' = Append(feedback, fbWrite[f].doc)
    /\ existingFeedback' = [existingFeedback EXCEPT ![f] =
                               Append(fbWrite[f].captured, fbWrite[f].doc)]
    /\ fbSelected' = [fbSelected EXCEPT ![f] = NoId]
    /\ rating' = [rating EXCEPT ![f] = 0]
    /\ comment' = [comment EXCEPT ![f] = <<>>]
    /\ showSuccess' = [showSuccess EXCEPT ![f] = TRUE]
    /\ submitting' = [submitting EXCEPT ![f] = FALSE]
    /\ fbWrite' = [fbWrite EXCEPT ![f] = NoFeedback]
    /\ UNCHANGED <<event, appointments, prescriptions, clockVars, readVars, bookingVars, doctorVars,
                   fbUser, fbLoading, fbStage, completedAppointments>>

\* a failure that resets the form as a success does
FeedbackAddDocRejectReset(f) ==
    /\ fbWrite[f] # NoFeedback
    /\ fbSelected' = [fbSelected EXCEPT ![f] = NoId]
    /\ rating' = [rating EXCEPT ![f] = 0]
    /\ comment' = [comment EXCEPT ![f] = <<>>]
    /\ submitting' = [submitting EXCEPT ![f] = FALSE]
    /\ fbWrite' = [fbWrite EXCEPT ![f] = NoFeedback]
    /\ UNCHANGED <<event, storeVars, clockVars, readVars, bookingVars, doctorVars, fbUser, fbLoading,
                   fbStage, completedAppointments, existingFeedback, showSuccess>>

\* addDoc rejects: nothing is stored; the form is kept and submitting ends.
FeedbackAddDocReject(f) ==
    /\ fbWrite[f] # NoFeedback
    /\ submitting' = [submitting EXCEPT ![f] = FALSE]
    /\ fbWrite' = [fbWrite EXCEPT ![f] = NoFeedback]
    /\ UNCHANGED <<event, storeVars, clockVars, readVars, bookingVars, doctorVars, fbUser, fbLoading,
                   fbStage, completedAppointments, existingFeedback, fbSelected, rating,
                   comment, showSuccess>>

\* setTimeout(() => setShowSuccess(false), 3000)
HideSuccess(f) ==
    /\ showSuccess[f]
    /\ showSuccess' = [showSuccess EXCEPT ![f] = FALSE]
    /\ UNCHANGED <<event, storeVars, clockVars, readVars, bookingVars, doctorVars, fbUser, fbLoading,
                   fbStage, completedAppointments, existingFeedback, fbSelected, rating,
                   comment, submitting, fbWrite>>

(***************************************************************************)
(* DoctorFeedback                                                          *)
(***************************************************************************)

\* useState of stats
NoStats ==
    [totalReviews |-> 0, averageRating |-> 0,
     ratingDistribution |-> [r \in 1..5 |-> 0], withComments |-> 0]

\* feedbackList.reduce((sum, fb) => sum + fb.rating, 0)
RECURSIVE SumRatings(_)
SumRatings(feedbackList) ==
    IF feedbackList = <<>> THEN 0
    ELSE Head(feedbackList).rating + SumRatings(Tail(feedbackList))

\* an average that drops the second decimal
RoundedAverageTruncated(feedbackList) ==
    IF Len(feedbackList) > 0
    THEN (10 * SumRatings(feedbackList)) \div Len(feedbackList)
    ELSE 0

\* Math.round(averageRating * 10), the average in tenths: Math.round(x) is
\* the floor of x + 1/2, and x is 10 * sum / totalReviews
RoundedAverage(feedbackList) ==
    IF Len(feedbackList) > 0
    THEN (20 * SumRatings(feedbackList) + Len(feedbackList)) \div (2 * Len(feedbackList))
    ELSE 0

\* feedbackList.forEach(fb => ratingDistribution[fb.rating]++)
RECURSIVE RatingDistribution(_)
RatingDistribution(feedbackList) ==
    IF feedbackList = <<>> THEN [r \in 1..5 |-> 0]
    ELSE LET last == feedbackList[Len(feedbackList)]
             rest == RatingDistribution(SubSeq(feedbackList, 1, Len(feedbackList) - 1))
         IN [rest EXCEPT ![last.rating] = @ + 1]

\* feedbackList.filter(fb => fb.comment && fb.comment.trim()).length
RECURSIVE WithComments(_)
WithComments(feedbackList) ==
    IF feedbackList = <<>> THEN 0
    ELSE (IF Head(feedbackList).comment # <<>> /\ Trim(Head(feedbackList).comment) # <<>>
          THEN 1 ELSE 0) + WithComments(Tail(feedbackList))

\* calculateStats; averageRating is kept in tenths
CalculateStats(feedbackList) ==
    [totalReviews |-> Len(feedbackList),
     averageRating |-> RoundedAverage(feedbackList),
     ratingDistribution |-> RatingDistribution(feedbackList),
     withComments |-> WithComments(feedbackList)]

\* fetchFeedback: getDocs resolves; the list is kept and the statistics are
\* calculated from it; loading ends
FetchFeedbackResolve ==
    /\ dfLoading
    /\ dfFeedback' = dfQuery
    /\ dfStats' = CalculateStats(dfQuery)
    /\ dfLoading' = FALSE
    /\ UNCHANGED <<dfQuery, recordVars, routeVars, dashVars, storeVars, clockVars, bookingVars, doctorVars,
                   feedbackVars, event>>

\* fetchFeedback: getDocs rejects; the catch block only logs; loading ends
FetchFeedbackReject ==
    /\ dfLoading
    /\ dfLoading' = FALSE
    /\ UNCHANGED <<dfQuery, dfFeedback, dfStats, recordVars, routeVars, dashVars, storeVars, clockVars,
                   bookingVars, doctorVars, feedbackVars, event>>

(***************************************************************************)
(* Firestore rules; DoctorPrescriptions and ViewPrescriptions              *)
(***************************************************************************)
NoUser == ""

\* allow read, write: if request.auth != null
RulesAllow(auth) == auth # NoUser

\* query(appointments, where doctorId == uid, where status == 'completed')
CompletedFor(uid) ==
    {i \in Ids(appointments) :
        appointments[i].doctorId = uid /\ appointments[i].status = "completed"}

\* the prescriptions whose appointmentId is in appointmentIds
RECURSIVE IncludedIn(_, _)
IncludedIn(docs, ids) ==
    IF docs = <<>> THEN <<>>
    ELSE IF Head(docs).appointmentId \in ids
         THEN <<Head(docs)>> \o IncludedIn(Tail(docs), ids)
         ELSE IncludedIn(Tail(docs), ids)

\* query(prescriptions, where patientId == uid)
RECURSIVE PrescriptionsOf(_, _)
PrescriptionsOf(docs, uid) ==
    IF docs = <<>> THEN <<>>
    ELSE IF Head(docs).patientId = uid
         THEN <<Head(docs)>> \o PrescriptionsOf(Tail(docs), uid)
         ELSE PrescriptionsOf(Tail(docs), uid)

\* DoctorPrescriptions.fetchPrescriptions, first await: the ids of the
\* doctor's completed appointments arrive; with none of them it returns.
DoctorFetchAppointmentsResolve ==
    /\ dpStage = "appointments"
    /\ RulesAllow(dpUser)
    /\ dpIds' = CompletedFor(dpUser)
    /\ dpStage' = IF CompletedFor(dpUser) = {} THEN "done" ELSE "prescriptions"
    /\ UNCHANGED <<dpUser, dpSnapshot, dpPrescriptions, vpUser, vpLoading, vpPrescriptions,
                   statsVars, routeVars, dashVars, storeVars, clockVars, bookingVars, doctorVars, feedbackVars,
                   event>>

\* DoctorPrescriptions.fetchPrescriptions, second await: the query has no
\* where clause, so the whole collection arrives; the list keeps the
\* documents of the doctor's appointments.
DoctorFetchPrescriptionsResolve ==
    /\ dpStage = "prescriptions"
    /\ RulesAllow(dpUser)
    /\ dpSnapshot' = prescriptions
    /\ dpPrescriptions' = IncludedIn(prescriptions, dpIds)
    /\ dpStage' = "done"
    /\ UNCHANGED <<dpUser, dpIds, vpUser, vpLoading, vpPrescriptions, statsVars, routeVars, dashVars, storeVars,
                   clockVars, bookingVars, doctorVars, feedbackVars, event>>

\* DoctorPrescriptions.fetchPrescriptions: either getDocs rejects
DoctorFetchReject ==
    /\ dpStage \in {"appointments", "prescriptions"}
    /\ dpStage' = "done"
    /\ UNCHANGED <<dpUser, dpIds, dpSnapshot, dpPrescriptions, vpUser, vpLoading,
                   vpPrescriptions, statsVars, routeVars, dashVars, storeVars, clockVars, bookingVars,
                   doctorVars, feedbackVars, event>>

\* ViewPrescriptions.fetchPrescriptions: the patient's prescriptions arrive
PatientFetchResolve ==
    /\ vpLoading
    /\ RulesAllow(vpUser)
    /\ vpPrescriptions' = PrescriptionsOf(prescriptions, vpUser)
    /\ vpLoading' = FALSE
    /\ UNCHANGED <<dpUser, dpStage, dpIds, dpSnapshot, dpPrescriptions, vpUser, statsVars, routeVars,
                   dashVars, storeVars, clockVars, bookingVars, doctorVars, feedbackVars, event>>

\* ViewPrescriptions.fetchPrescriptions: getDocs rejects
PatientFetchReject ==
    /\ vpLoading
    /\ vpLoading' = FALSE
    /\ UNCHANGED <<dpUser, dpStage, dpIds, dpSnapshot, dpPrescriptions, vpUser,
                   vpPrescriptions, statsVars, routeVars, dashVars, storeVars, clockVars, bookingVars,
                   doctorVars, feedbackVars, event>>

(***************************************************************************)
(* AuthContext, the routes of AppContent and ProtectedRoute                *)
(***************************************************************************)
Roles == {"patient", "doctor"}

\* the role of the profile record of a user
RoleOf(uid) == IF uid \in Doctors THEN "doctor" ELSE "patient"

\* the pages behind ProtectedRoute, by role
Pages == {"dashboard", "appointments", "prescriptions", "feedback"}

\* the paths a user can ask for: /, /login, /register, /<role>/<page>, the
\* path a redirect builds for a user without a profile, and one no route has
Paths ==
    {<<>>, <<"login">>, <<"register">>, <<"nowhere">>, <<"undefined", "dashboard">>}
        \cup {<<r, page>> : r \in Roles, page \in Pages}

\* a guard that checks the sign-in only
ProtectedRouteAnyRole(user, role, requiredRole) ==
    IF user = NoUser THEN <<"login">> ELSE <<"children">>

\* ProtectedRoute: the children, or the path it navigates to
ProtectedRoute(user, role, requiredRole) ==
    IF user = NoUser THEN <<"login">>
    ELSE IF requiredRole # "" /\ role # requiredRole THEN <<role, "dashboard">>
    ELSE <<"children">>

\* Routes: the element of the route that matches the path: a page to render,
\* or the path to navigate to
RouteElement(path, user, role) ==
    IF path \in {<<"login">>, <<"register">>} THEN [render |-> path]
    ELSE IF Len(path) = 2 /\ path[1] \in Roles /\ path[2] \in Pages
         THEN LET res == ProtectedRoute(user, role, path[1]) IN
                IF res = <<"children">> THEN [render |-> path] ELSE [navigate |-> res]
    ELSE [navigate |-> <<"login">>]

\* the user asks for a path: a link, the address bar, a reload
Visit(path) ==
    /\ location' = path
    /\ origin' = path
    /\ hops' = 0
    /\ rendered' = <<"none">>
    /\ UNCHANGED <<currentUser, userData, statsVars, recordVars, dashVars, storeVars, clockVars,
                   bookingVars, doctorVars, feedbackVars, event>>

\* the router renders the route of the location: a page, or a Navigate
ResolveRoute ==
    /\ rendered = <<"none">>
    /\ LET el == RouteElement(location, currentUser, userData) IN
         IF "render" \in DOMAIN el
         THEN /\ rendered' = el.render
              /\ UNCHANGED <<location, hops>>
         ELSE /\ location' = el.navigate
              /\ hops' = hops + 1
              /\ UNCHANGED rendered
    /\ UNCHANGED <<currentUser, userData, origin, statsVars, recordVars, dashVars, storeVars,
                   clockVars, bookingVars, doctorVars, feedbackVars, event>>

\* AuthContext: a user signs in; the profile is there at once or arrives later
SignIn(uid) ==
    /\ currentUser = NoUser
    /\ currentUser' = uid
    /\ userData' \in {"undefined", RoleOf(uid)}
    /\ rendered' = <<"none">>
    /\ hops' = 0
    /\ origin' = location
    /\ UNCHANGED <<location, statsVars, recordVars, dashVars, storeVars, clockVars, bookingVars,
                   doctorVars, feedbackVars, event>>

\* AuthContext: the profile record of the signed-in user arrives
ProfileLoaded ==
    /\ currentUser # NoUser
    /\ userData = "undefined"
    /\ userData' = RoleOf(currentUser)
    /\ rendered' = <<"none">>
    /\ hops' = 0
    /\ origin' = location
    /\ UNCHANGED <<currentUser, location, statsVars, recordVars, dashVars, storeVars, clockVars,
                   bookingVars, doctorVars, feedbackVars, event>>

\* AuthContext: the user signs out
SignOut ==
    /\ currentUser # NoUser
    /\ currentUser' = NoUser
    /\ userData' = "undefined"
    /\ rendered' = <<"none">>
    /\ hops' = 0
    /\ origin' = location
    /\ UNCHANGED <<location, statsVars, recordVars, dashVars, storeVars, clockVars, bookingVars,
                   doctorVars, feedbackVars, event>>

(***************************************************************************)
(* DoctorDashboard and PatientDashboard                                    *)
(***************************************************************************)
DoctorFetches == {"appointments", "feedback"}
PatientFetches == {"appointments", "prescriptions"}

\* query(feedback, where doctorId == uid)
RECURSIVE FeedbackFor(_, _)
FeedbackFor(docs, uid) ==
    IF docs = <<>> THEN <<>>
    ELSE IF Head(docs).doctorId = uid THEN <<Head(docs)>> \o FeedbackFor(Tail(docs), uid)
    ELSE FeedbackFor(Tail(docs), uid)

\* the hour of a time slot "HH:MM"; 09:00 is the slot the bookings here use
TimeOfDay(time) == IF time = "09:00" THEN 9 ELSE 0

\* new Date(`${apt.date} ${apt.time}`): a date with a time parses as local time
ParseLocal(date, time, off) == date * 24 + TimeOfDay(time) - off

\* DoctorDashboard.fetchAppointments: getDocs resolves; the list and the
\* counts of the statistics are set.  loading is left alone.
DoctorDashboardFetchAppointmentsResolve ==
    /\ "appointments" \in ddFetch
    /\ ddFetch' = ddFetch \ {"appointments"}
    /\ LET mine == {i \in Ids(appointments) : appointments[i].doctorId = ddUser} IN
         /\ ddAppointments' = [i \in mine |-> appointments[i].status]
         /\ ddStats' = [ddStats EXCEPT
                !.pending = Cardinality({i \in mine : appointments[i].status = "pending"}),
                !.today = Cardinality({i \in mine : appointments[i].date = UtcDate(now)}),
                !.completed = Cardinality({i \in mine : appointments[i].status = "completed"})]
    /\ UNCHANGED <<ddUser, ddLoading, ddFeedback, pdUser, pdLoading, pdFetch, pdAppointments,
                   pdPrescriptions, pdStats, statsVars, recordVars, routeVars, storeVars,
                   clockVars, bookingVars, doctorVars, feedbackVars, event>>

\* DoctorDashboard.fetchAppointments: getDocs rejects; the catch block only
\* logs and there is no finally.
DoctorDashboardFetchAppointmentsReject ==
    /\ "appointments" \in ddFetch
    /\ ddFetch' = ddFetch \ {"appointments"}
    /\ UNCHANGED <<ddUser, ddLoading, ddAppointments, ddFeedback, ddStats, pdUser, pdLoading,
                   pdFetch, pdAppointments, pdPrescriptions, pdStats, statsVars, recordVars,
                   routeVars, storeVars, clockVars, bookingVars, doctorVars, feedbackVars,
                   event>>

\* DoctorDashboard.fetchFeedback: getDocs resolves; the list is set, the
\* average (in tenths) is set when the list is not empty, and loading ends.
DoctorDashboardFetchFeedbackResolve ==
    /\ "feedback" \in ddFetch
    /\ ddFetch' = ddFetch \ {"feedback"}
    /\ LET feedbackList == FeedbackFor(feedback, ddUser) IN
         /\ ddFeedback' = feedbackList
         /\ ddStats' = IF Len(feedbackList) > 0
                       THEN [ddStats EXCEPT !.averageRating = RoundedAverage(feedbackList)]
                       ELSE ddStats
    /\ ddLoading' = FALSE
    /\ UNCHANGED <<ddUser, ddAppointments, pdUser, pdLoading, pdFetch, pdAppointments,
                   pdPrescriptions, pdStats, statsVars, recordVars, routeVars, storeVars,
                   clockVars, bookingVars, doctorVars, feedbackVars, event>>

\* a fetchFeedback of the doctor's dashboard whose failure leaves loading as
\* it was
DoctorDashboardFetchFeedbackRejectNoFinally ==
    /\ "feedback" \in ddFetch
    /\ ddFetch' = ddFetch \ {"feedback"}
    /\ UNCHANGED <<ddUser, ddLoading, ddAppointments, ddFeedback, ddStats, pdUser, pdLoading,
                   pdFetch, pdAppointments, pdPrescriptions, pdStats, statsVars, recordVars,
                   routeVars, storeVars, clockVars, bookingVars, doctorVars, feedbackVars,
                   event>>

\* DoctorDashboard.fetchFeedback: getDocs rejects; loading ends in the finally.
DoctorDashboardFetchFeedbackReject ==
    /\ "feedback" \in ddFetch
    /\ ddFetch' = ddFetch \ {"feedback"}
    /\ ddLoading' = FALSE
    /\ UNCHANGED <<ddUser, ddAppointments, ddFeedback, ddStats, pdUser, pdLoading, pdFetch,
                   pdAppointments, pdPrescriptions, pdStats, statsVars, recordVars, routeVars,
                   storeVars, clockVars, bookingVars, doctorVars, feedbackVars, event>>

\* PatientDashboard.fetchAppointments: getDocs resolves; the list and the
\* counts of the statistics are set.  loading is left alone.
PatientDashboardFetchAppointmentsResolve ==
    /\ "appointments" \in pdFetch
    /\ pdFetch' = pdFetch \ {"appointments"}
    /\ LET mine == {i \in Ids(appointments) : appointments[i].patientId = pdUser} IN
         /\ pdAppointments' = [i \in mine |-> appointments[i].status]
         /\ pdStats' = [pdStats EXCEPT
                !.upcoming = Cardinality({i \in mine :
                    /\ appointments[i].status \in {"confirmed", "in_progress"}
                    /\ ParseLocal(appointments[i].date, appointments[i].time, offset) > now}),
                !.completed = Cardinality({i \in mine : appointments[i].status = "completed"}),
                !.pending = Cardinality({i \in mine : appointments[i].status = "pending"})]
    /\ UNCHANGED <<pdUser, pdLoading, pdPrescriptions, ddUser, ddLoading, ddFetch,
                   ddAppointments, ddFeedback, ddStats, statsVars, recordVars, routeVars,
                   storeVars, clockVars, bookingVars, doctorVars, feedbackVars, event>>

\* PatientDashboard.fetchAppointments: getDocs rejects; the catch block only
\* logs and there is no finally.
PatientDashboardFetchAppointmentsReject ==
    /\ "appointments" \in pdFetch
    /\ pdFetch' = pdFetch \ {"appointments"}
    /\ UNCHANGED <<pdUser, pdLoading, pdAppointments, pdPrescriptions, pdStats, ddUser,
                   ddLoading, ddFetch, ddAppointments, ddFeedback, ddStats, statsVars,
                   recordVars, routeVars, storeVars, clockVars, bookingVars, doctorVars,
                   feedbackVars, event>>

\* PatientDashboard.fetchPrescriptions: getDocs resolves; the list and its
\* count are set and loading ends.
PatientDashboardFetchPrescriptionsResolve ==
    /\ "prescriptions" \in pdFetch
    /\ pdFetch' = pdFetch \ {"prescriptions"}
    /\ pdPrescriptions' = PrescriptionsOf(prescriptions, pdUser)
    /\ pdStats' = [pdStats EXCEPT
                      !.prescriptions = Len(PrescriptionsOf(prescriptions, pdUser))]
    /\ pdLoading' = FALSE
    /\ UNCHANGED <<pdUser, pdAppointments, ddUser, ddLoading, ddFetch, ddAppointments,
                   ddFeedback, ddStats, statsVars, recordVars, routeVars, storeVars, clockVars,
                   bookingVars, doctorVars, feedbackVars, event>>

\* PatientDashboard.fetchPrescriptions: getDocs rejects; loading ends in the
\* finally.
PatientDashboardFetchPrescriptionsReject ==
    /\ "prescriptions" \in pdFetch
    /\ pdFetch' = pdFetch \ {"prescriptions"}
    /\ pdLoading' = FALSE
    /\ UNCHANGED <<pdUser, pdAppointments, pdPrescriptions, pdStats, ddUser, ddLoading,
                   ddFetch, ddAppointments, ddFeedback, ddStats, statsVars, recordVars,
                   routeVars, storeVars, clockVars, bookingVars, doctorVars, feedbackVars,
                   event>>

vars == <<storeVars, clockVars, bookingVars, doctorVars, feedbackVars, readVars, event>>

(***************************************************************************)
(* Inputs of the booking form.                                             *)
(***************************************************************************)
DoctorInputs == {"", "d1"}
DateInputs == {NoDate} \cup ((StartDay - 2)..(StartDay + 2))
TimeInputs == {"", "09:00"}
\* the note is optional and is stored as typed; no check reads it
NoteInputs == {"n"}

InitStore ==
    /\ appointments = <<>>
    /\ prescriptions = <<>>
    /\ feedback = <<>>

InitClock ==
    /\ now \in {StartDay * 24 + h : h \in StartHours}
    /\ offset \in Offsets
    /\ ticks = 0

\* After mount: the form is empty, the count is 0 and the first
\* checkTodayBookings is in flight (useEffect).
InitBookingState ==
    /\ todayBookings = [s \in Sessions |-> 0]
    /\ bkLoading = [s \in Sessions |-> FALSE]
    /\ bkSuccess = [s \in Sessions |-> FALSE]
    /\ bkError = [s \in Sessions |-> ""]
    /\ bkWrite = [s \in Sessions |-> NoWrite]
    /\ bkCount = [s \in Sessions |-> <<UtcDate(now)>>]

\* every booking session is signed in as the same patient
InitBooking ==
    /\ sessUser = [s \in Sessions |-> "p1"]
    /\ InitBookingState

\* After mount: the list is empty and loading, the first fetchAppointments is
\* in flight (useEffect), no modal is shown.
InitDoctorState ==
    /\ mLoading = [v \in Views |-> TRUE]
    /\ mAppts = [v \in Views |-> <<>>]
    /\ updating = [v \in Views |-> NoId]
    /\ mWrites = [v \in Views |-> <<>>]
    /\ mFetch = [v \in Views |-> 1]
    /\ selectedAppointment = [v \in Views |-> NoId]
    /\ showPrescriptionForm = [v \in Views |-> FALSE]
    /\ rxDiagnosis = [v \in Views |-> <<>>]
    /\ rxMeds = [v \in Views |-> <<BlankMed>>]
    /\ rxLoading = [v \in Views |-> FALSE]
    /\ rxWrites = [v \in Views |-> <<>>]

\* every doctor view is signed in as the same doctor
InitDoctor ==
    /\ viewUser = [v \in Views |-> "d1"]
    /\ InitDoctorState

\* After mount: both lists are empty and loading, fetchData is at its first
\* await (useEffect), nothing is selected.
InitFeedbackState ==
    /\ fbLoading = [f \in FViews |-> TRUE]
    /\ fbStage = [f \in FViews |-> "appointments"]
    /\ completedAppointments = [f \in FViews |-> {}]
    /\ existingFeedback = [f \in FViews |-> <<>>]
    /\ fbSelected = [f \in FViews |-> NoId]
    /\ rating = [f \in FViews |-> 0]
    /\ comment = [f \in FViews |-> <<>>]
    /\ submitting = [f \in FViews |-> FALSE]
    /\ showSuccess = [f \in FViews |-> FALSE]
    /\ fbWrite = [f \in FViews |-> NoFeedback]

\* every feedback view is signed in as the same patient
InitFeedback ==
    /\ fbUser = [f \in FViews |-> "p1"]
    /\ InitFeedbackState

\* After mount: the list is empty, the statistics are zero and fetchFeedback
\* is in flight (useEffect).
InitStatsState ==
    /\ dfFeedback = <<>>
    /\ dfStats = NoStats
    /\ dfLoading = TRUE

\* the doctor has no feedback
InitStats ==
    /\ dfQuery = <<>>
    /\ InitStatsState

\* After mount: the lists are empty and the first query is in flight.
InitRecordsState ==
    /\ dpStage = "appointments"
    /\ dpIds = {}
    /\ dpSnapshot = <<>>
    /\ dpPrescriptions = <<>>
    /\ vpLoading = TRUE
    /\ vpPrescriptions = <<>>

InitRecords ==
    /\ dpUser = "d1"
    /\ vpUser = "p1"
    /\ InitRecordsState

\* After mount: the lists are empty, the statistics are zero and both fetches
\* of each dashboard are in flight (useEffect).
InitDashState ==
    /\ ddLoading = TRUE
    /\ ddFetch = DoctorFetches
    /\ ddAppointments = <<>>
    /\ ddFeedback = <<>>
    /\ ddStats = [pending |-> 0, today |-> 0, completed |-> 0, averageRating |-> 0]
    /\ pdLoading = TRUE
    /\ pdFetch = PatientFetches
    /\ pdAppointments = <<>>
    /\ pdPrescriptions = <<>>
    /\ pdStats = [upcoming |-> 0, completed |-> 0, pending |-> 0, prescriptions |-> 0]

InitDash ==
    /\ ddUser = "d1"
    /\ pdUser = "p1"
    /\ InitDashState

\* The app is opened at /login with nobody signed in.
InitRoute ==
    /\ currentUser = NoUser
    /\ userData = "undefined"
    /\ location = <<"login">>
    /\ origin = <<"login">>
    /\ hops = 0
    /\ rendered = <<"none">>

Init ==
    /\ InitStore
    /\ InitClock
    /\ InitBooking
    /\ InitDoctor
    /\ InitFeedback
    /\ InitStats
    /\ InitRecords
    /\ InitRoute
    /\ InitDash
    /\ event = NoEvent

\* the steps of the booking sessions S, with the form inputs drawn from the given sets
BookingNext(S, doctors, dates, times, notes) ==
    \/ \E s \in S, d \in doctors, date \in dates, t \in times, n \in notes :
           HandleSubmit(s, d, date, t, n)
    \/ \E s \in S : AddDocResolve(s)
    \/ \E s \in S : AddDocReject(s)
    \/ \E s \in S : CheckTodayBookingsResolve(s)
    \/ \E s \in S : CheckTodayBookingsReject(s)
    \/ \E s \in S : BookAnother(s)

\* A session is quiescent when none of its calls is in flight.
Quiescent(s) == bkWrite[s] = NoWrite /\ bkCount[s] = <<>>

\* One patient, one session, and no submission while a call of the session is
\* in flight: sequential, non-racing bookings.
NextSequential ==
    \/ \E d \in DoctorInputs, date \in DateInputs, t \in TimeInputs, n \in NoteInputs :
           Quiescent("s1") /\ HandleSubmit("s1", d, date, t, n)
    \/ AddDocResolve("s1")
    \/ AddDocReject("s1")
    \/ CheckTodayBookingsResolve("s1")
    \/ CheckTodayBookingsReject("s1")
    \/ BookAnother("s1")
    \/ Tick

SpecSequential == Init /\ [][NextSequential]_vars

\* Two sessions of one patient (two tabs, or two devices), interleaved freely.
NextBooking == BookingNext(Sessions, {"d1"}, {StartDay, StartDay + 1}, {"09:00"}, {"n"})

SpecBooking == Init /\ [][NextBooking]_vars

\* the steps of the doctor views V: the list and the status updates
ManageNext(V) ==
    \/ \E v \in V : FetchAppointmentsResolve(v)
    \/ \E v \in V : FetchAppointmentsReject(v)
    \/ \E v \in V, id \in 1..MaxAppts, st \in Status : UpdateAppointmentStatus(v, id, st)
    \/ \E v \in V : UpdateDocResolve(v)
    \/ \E v \in V : UpdateDocReject(v)

\* the steps of the prescription modal and form of the views V, with the text
\* inputs drawn from the given sets
FormNext(V, diagnoses, names) ==
    \/ \E v \in V, id \in 1..MaxAppts : HandleCreatePrescription(v, id)
    \/ \E v \in V : OnClose(v)
    \/ \E v \in V, text \in diagnoses : SetDiagnosis(v, text)
    \/ \E v \in V, i \in 1..MaxMeds, text \in names : UpdateMedication(v, i, "name", text)
    \/ \E v \in V : FormHandleSubmit(v)
    \/ \E v \in V : FormAddDocResolve(v)
    \/ \E v \in V : FormAddDocReject(v)

\* The lifecycle: one patient session books, the doctor's views manage.
InitLifecycle ==
    /\ Init
    /\ now = StartDay * 24 + 12
    /\ offset = 0

\* the patient books at most n appointments with the doctor
BookForLifecycle(n) ==
    \/ Len(appointments) < n /\ HandleSubmit("s1", "d1", StartDay + 1, "09:00", "n")
    \/ AddDocResolve("s1")
    \/ BookAnother("s1")

\* Two views of one doctor (two tabs, or two devices) manage the statuses; the
\* first of them also writes prescriptions.
NextLifecycle ==
    \/ BookForLifecycle(MaxShared)
    \/ ManageNext(Views)
    \/ FormNext({"v1"}, {<<"f">>}, {<<"m">>})

SpecLifecycle == InitLifecycle /\ [][NextLifecycle]_vars

\* One session of one patient and nothing else: the patient submits whenever
\* the form is shown, also while the count is being fetched.
NextOneSession == BookingNext({"s1"}, {"d1"}, {StartDay, StartDay + 1}, {"09:00"}, {"n"})

SpecOneSession == InitLifecycle /\ [][NextOneSession]_vars

\* The pages are opened when the patient's visits already have the given
\* statuses: states the lifecycle reaches once the doctor has managed them.
InitAfter(statuses) ==
    /\ now = StartDay * 24 + 12
    /\ offset = 0
    /\ ticks = 0
    /\ InitBooking
    /\ appointments = [k \in 1..Len(statuses) |->
                          [NewAppointment("s1", "d1", StartDay, "09:00", "n")
                              EXCEPT !.status = statuses[k]]]
    /\ prescriptions = <<>>
    /\ feedback = <<>>
    /\ InitDoctor
    /\ InitFeedback
    /\ InitStats
    /\ InitRecords
    /\ InitRoute
    /\ InitDash
    /\ event = NoEvent

\* one completed visit
InitConsulted == InitAfter(<<"completed">>)

\* One doctor view; the list loads and the doctor edits the prescription form
\* freely: blank, whitespace and proper text, entries added and removed.
NextPrescribe ==
    \/ FetchAppointmentsResolve("v1")
    \/ FetchAppointmentsReject("v1")
    \/ FormNext({"v1"}, {<<>>, <<" ">>, <<" ", "f">>}, {<<>>, <<" ">>, <<"m", " ">>})
    \/ AddMedication("v1")
    \/ \E i \in 1..MaxMeds : RemoveMedication("v1", i)

SpecPrescribe == InitConsulted /\ [][NextPrescribe]_vars

\* One doctor view; the doctor writes one prescription: fills in names and
\* dosages of the medication entries, adds and removes entries, and submits.
NextDispense ==
    \/ FetchAppointmentsResolve("v1")
    \/ /\ prescriptions = <<>> /\ rxWrites["v1"] = <<>>
       /\ HandleCreatePrescription("v1", 1)
    \/ OnClose("v1")
    \/ SetDiagnosis("v1", <<"f">>)
    \/ \E i \in 1..MaxMeds, text \in {<<" ">>, <<"m", " ">>} :
           UpdateMedication("v1", i, "name", text)
    \/ \E i \in 1..MaxMeds : UpdateMedication("v1", i, "dosage", "1mg")
    \/ AddMedication("v1")
    \/ \E i \in 1..MaxMeds : RemoveMedication("v1", i)
    \/ FormHandleSubmit("v1")
    \/ FormAddDocResolve("v1")
    \/ FormAddDocReject("v1")

SpecDispense == InitConsulted /\ [][NextDispense]_vars

\* The patient books for today, one submission after the other, each after
\* the count has arrived; the doctor manages the appointments in one view and
\* may cancel them.
NextDayCap ==
    \/ Quiescent("s1") /\ HandleSubmit("s1", "d1", StartDay, "09:00", "n")
    \/ AddDocResolve("s1")
    \/ CheckTodayBookingsResolve("s1")
    \/ BookAnother("s1")
    \/ ManageNext({"v1"})

SpecDayCap == InitLifecycle /\ [][NextDayCap]_vars

\* A single ManageAppointments view is the only writer of statuses.
NextOneView ==
    \/ BookForLifecycle(MaxManaged)
    \/ ManageNext({"v1"})
    \/ FormNext({"v1"}, {<<"f">>}, {<<"m">>})

SpecOneView == InitLifecycle /\ [][NextOneView]_vars

\* The doctor opens the page when two visits are booked, and is the only
\* writer: one view manages them and writes prescriptions.
InitBooked == InitAfter(<<"pending", "pending">>)

NextSoleWriter ==
    \/ ManageNext({"v1"})
    \/ FormNext({"v1"}, {<<"f">>}, {<<"m">>})

SpecSoleWriter == InitBooked /\ [][NextSoleWriter]_vars

\* the steps of the feedback views F, with the inputs drawn from the given sets
FeedbackNext(F, ratings, comments) ==
    \/ \E f \in F : FetchDataAppointmentsResolve(f)
    \/ \E f \in F : FetchDataFeedbackResolve(f)
    \/ \E f \in F : FetchDataReject(f)
    \/ \E f \in F, id \in 1..MaxAppts : SelectAppointment(f, id)
    \/ \E f \in F, r \in ratings : SetRating(f, r)
    \/ \E f \in F, text \in comments : SetComment(f, text)
    \/ \E f \in F : HandleSubmitFeedback(f)
    \/ \E f \in F : FeedbackAddDocResolve(f)
    \/ \E f \in F : FeedbackAddDocReject(f)
    \/ \E f \in F : HideSuccess(f)

\* Feedback: the patient books, the doctor completes the appointment in one
\* view, and the patient opens the feedback page twice (in two tabs, or one
\* visit after the other: the fetch of a view resolves at any later time).
NextFeedback ==
    \/ BookForLifecycle(MaxShared)
    \/ ManageNext({"v1"})
    \/ FeedbackNext(FViews, {1, 5}, {<<>>, <<" ", "c">>})

SpecFeedback == InitLifecycle /\ [][NextFeedback]_vars

\* One feedback view of a patient with two completed visits and a pending one.
InitReviewable == InitAfter(<<"completed", "completed", "pending">>)

NextRating == FeedbackNext({"f1"}, {1, 5}, {<<>>, <<" ", "c">>})

SpecRating == InitReviewable /\ [][NextRating]_vars

\* Two patients, each with a feedback view of their own; the first has
\* completed visits to both doctors, the second to one.
InitAttended ==
    /\ now = StartDay * 24 + 12
    /\ offset = 0
    /\ ticks = 0
    /\ sessUser = [s \in Sessions |-> IF s = "s1" THEN "p1" ELSE "p2"]
    /\ InitBookingState
    /\ appointments =
          <<[NewAppointment("s1", "d1", StartDay, "09:00", "n") EXCEPT !.status = "completed"],
            [NewAppointment("s2", "d1", StartDay, "09:00", "n") EXCEPT !.status = "completed"],
            [NewAppointment("s1", "d2", StartDay, "09:00", "n") EXCEPT !.status = "completed"]>>
    /\ prescriptions = <<>>
    /\ feedback = <<>>
    /\ InitDoctor
    /\ fbUser = [f \in FViews |-> IF f = "f1" THEN "p1" ELSE "p2"]
    /\ InitFeedbackState
    /\ InitStats
    /\ InitRecords
    /\ InitRoute
    /\ InitDash
    /\ event = NoEvent

NextAttribution == FeedbackNext(FViews, {5}, {<<>>})

SpecAttribution == InitAttended /\ [][NextAttribution]_vars

\* Two patients and two doctors, each signed in to a view of their own.
InitClinic ==
    /\ InitStore
    /\ now = StartDay * 24 + 12
    /\ offset = 0
    /\ ticks = 0
    /\ sessUser = [s \in Sessions |-> IF s = "s1" THEN "p1" ELSE "p2"]
    /\ InitBookingState
    /\ viewUser = [v \in Views |-> IF v = "v1" THEN "d1" ELSE "d2"]
    /\ InitDoctorState
    /\ fbUser = [f \in FViews |-> IF f = "f1" THEN "p1" ELSE "p2"]
    /\ InitFeedbackState
    /\ InitStats
    /\ InitRecords
    /\ InitRoute
    /\ InitDash
    /\ event = NoEvent

\* The two patients fill in and submit the booking form, with any field
\* left empty or filled.
NextIntake ==
    BookingNext(Sessions, {""} \cup Doctors, {NoDate, StartDay}, TimeInputs, NoteInputs)

SpecIntake == InitClinic /\ [][NextIntake]_vars

\* Two patients book, each with a doctor of their own; each doctor manages
\* in a view of their own and the first writes a prescription; then any
\* doctor opens the prescriptions page and any patient theirs.
InitPractice ==
    /\ InitStore
    /\ now = StartDay * 24 + 12
    /\ offset = 0
    /\ ticks = 0
    /\ sessUser = [s \in Sessions |-> IF s = "s1" THEN "p1" ELSE "p2"]
    /\ InitBookingState
    /\ viewUser = [v \in Views |-> IF v = "v1" THEN "d1" ELSE "d2"]
    /\ InitDoctorState
    /\ InitFeedback
    /\ InitStats
    /\ dpUser \in Doctors
    /\ vpUser \in Patients
    /\ InitRecordsState
    /\ InitRoute
    /\ InitDash
    /\ event = NoEvent

\* the steps of the two prescription pages
RecordsNext ==
    \/ DoctorFetchAppointmentsResolve
    \/ DoctorFetchPrescriptionsResolve
    \/ DoctorFetchReject
    \/ PatientFetchResolve
    \/ PatientFetchReject

\* each patient books once, with the doctor of the same number
BookForPractice ==
    \/ /\ \A i \in Ids(appointments) : appointments[i].patientId # "p1"
       /\ HandleSubmit("s1", "d1", StartDay + 1, "09:00", "n")
    \/ /\ \A i \in Ids(appointments) : appointments[i].patientId # "p2"
       /\ HandleSubmit("s2", "d2", StartDay + 1, "09:00", "n")
    \/ \E s \in Sessions : AddDocResolve(s)

NextPractice ==
    \/ BookForPractice
    \/ ManageNext(Views)
    \/ FormNext({"v1"}, {<<"f">>}, {<<"m">>})
    \/ RecordsNext

SpecPractice == InitPractice /\ [][NextPractice]_vars

\* Users sign in and out and ask for any path.
NextRoutes ==
    \/ \E path \in Paths : Visit(path)
    \/ ResolveRoute
    \/ \E uid \in Patients \cup Doctors : SignIn(uid)
    \/ ProfileLoaded
    \/ SignOut

SpecRoutes == InitLifecycle /\ [][NextRoutes]_vars

\* the feedback documents a doctor can have: any rating of the stars, with no
\* comment, a blank one or a written one
FeedbackDocs == [rating : 1..5, comment : {<<>>, <<" ">>, <<"c">>}]

FeedbackLists == UNION {[1..n -> FeedbackDocs] : n \in 0..MaxReviews}

\* The doctor opens the feedback page; the query returns any list of feedback.
InitReviews ==
    /\ InitStore
    /\ now = StartDay * 24 + 12
    /\ offset = 0
    /\ ticks = 0
    /\ InitBooking
    /\ InitDoctor
    /\ InitFeedback
    /\ dfQuery \in FeedbackLists
    /\ InitStatsState
    /\ InitRecords
    /\ InitRoute
    /\ InitDash
    /\ event = NoEvent

NextReviews ==
    \/ FetchFeedbackResolve
    \/ FetchFeedbackReject

SpecReviews == InitReviews /\ [][NextReviews]_vars

(***************************************************************************)
(* Every data view mounted with the profile available, its fetches in      *)
(* flight.  The store holds a completed and a pending appointment of       *)
(* patient p1 with doctor d1, a prescription and a feedback document for   *)
(* the completed one; doctor d2 has no appointment at all.  One            *)
(* ManageAppointments page and one PatientFeedback page are mounted.       *)
(***************************************************************************)
MountedViews == {"v1"}
MountedFViews == {"f1"}

InitLoading ==
    /\ now = StartDay * 24 + 12
    /\ offset = 0
    /\ ticks = 0
    /\ InitBooking
    /\ appointments =
          <<[NewAppointment("s1", "d1", StartDay, "09:00", "n") EXCEPT !.status = "completed"],
            NewAppointment("s1", "d1", StartDay, "09:00", "n")>>
    /\ prescriptions = <<[appointmentId |-> 1, patientId |-> "p1", diagnosis |-> <<"f">>,
                          medications |-> <<[BlankMed EXCEPT !.name = <<"m">>]>>]>>
    /\ feedback = <<[appointmentId |-> 1, patientId |-> "p1", doctorId |-> "d1",
                     doctorName |-> NameOf("d1"), rating |-> 4, comment |-> <<>>]>>
    /\ InitDoctor
    /\ InitFeedback
    /\ dfQuery = feedback
    /\ InitStatsState
    /\ dpUser \in Doctors
    /\ vpUser = "p1"
    /\ InitRecordsState
    /\ InitRoute
    /\ InitDash
    /\ event = NoEvent

\* the awaited getDocs of each view settles, one way or the other
ManageSettles(v) == FetchAppointmentsResolve(v) \/ FetchAppointmentsReject(v)
FeedbackViewSettles(f) ==
    FetchDataAppointmentsResolve(f) \/ FetchDataFeedbackResolve(f) \/ FetchDataReject(f)
DoctorFeedbackSettles == FetchFeedbackResolve \/ FetchFeedbackReject
DoctorPrescriptionsSettles ==
    DoctorFetchAppointmentsResolve \/ DoctorFetchPrescriptionsResolve \/ DoctorFetchReject
ViewPrescriptionsSettles == PatientFetchResolve \/ PatientFetchReject
DoctorDashboardAppointmentsSettles ==
    DoctorDashboardFetchAppointmentsResolve \/ DoctorDashboardFetchAppointmentsReject
DoctorDashboardFeedbackSettles ==
    DoctorDashboardFetchFeedbackResolve \/ DoctorDashboardFetchFeedbackReject
PatientDashboardAppointmentsSettles ==
    PatientDashboardFetchAppointmentsResolve \/ PatientDashboardFetchAppointmentsReject
PatientDashboardPrescriptionsSettles ==
    PatientDashboardFetchPrescriptionsResolve \/ PatientDashboardFetchPrescriptionsReject

NextLoading ==
    \/ \E v \in MountedViews : FetchAppointmentsResolve(v)
    \/ \E v \in MountedViews : FetchAppointmentsReject(v)
    \/ \E f \in MountedFViews : FetchDataAppointmentsResolve(f)
    \/ \E f \in MountedFViews : FetchDataFeedbackResolve(f)
    \/ \E f \in MountedFViews : FetchDataReject(f)
    \/ FetchFeedbackResolve
    \/ FetchFeedbackReject
    \/ DoctorFetchAppointmentsResolve
    \/ DoctorFetchPrescriptionsResolve
    \/ DoctorFetchReject
    \/ PatientFetchResolve
    \/ PatientFetchReject
    \/ DoctorDashboardFetchAppointmentsResolve
    \/ DoctorDashboardFetchAppointmentsReject
    \/ DoctorDashboardFetchFeedbackResolve
    \/ DoctorDashboardFetchFeedbackReject
    \/ PatientDashboardFetchAppointmentsResolve
    \/ PatientDashboardFetchAppointmentsReject
    \/ PatientDashboardFetchPrescriptionsResolve
    \/ PatientDashboardFetchPrescriptionsReject

\* a promise returned by getDocs settles: no awaited fetch stays in flight
\* for ever
FairLoading ==
    /\ \A v \in MountedViews : WF_vars(ManageSettles(v))
    /\ \A f \in MountedFViews : WF_vars(FeedbackViewSettles(f))
    /\ WF_vars(DoctorFeedbackSettles)
    /\ WF_vars(DoctorPrescriptionsSettles)
    /\ WF_vars(ViewPrescriptionsSettles)
    /\ WF_vars(DoctorDashboardAppointmentsSettles)
    /\ WF_vars(DoctorDashboardFeedbackSettles)
    /\ WF_vars(PatientDashboardAppointmentsSettles)
    /\ WF_vars(PatientDashboardPrescriptionsSettles)

SpecLoading == InitLoading /\ [][NextLoading]_vars /\ FairLoading

(***************************************************************************)
(* Booking policy                                                          *)
(***************************************************************************)
Submitted == event.op = "handleSubmit"

\* C2: under sequential bookings no patient has more than 2 stored
\* appointments that share one date.
C2_AtMostTwoPerDate ==
    \A p \in Patients : \A d \in DateInputs \ {NoDate} :
        CountOnDate(appointments, p, d) <= MaxPerDay

\* C3: a submission with every field valid for date D is rejected with the cap
\* error exactly when the patient already has 2 or more appointments dated D.
C3_CapCountsRequestedDate ==
    (Submitted /\ event.complete /\ ~IsPast(event.date, now, offset))
        => (event.outcome = "cap"
              <=> CountOnDate(appointments, sessUser[event.who], event.date) >= MaxPerDay)

\* C8: the cap check reads only the count the session cached: a complete,
\* non-past submission of a session whose cached count is below the cap is
\* accepted, whatever the store holds and whatever writes are in flight, so
\* two sessions that cached the count before either write landed both pass.
C8_CheckReadsCachedCount ==
    (Submitted /\ event.complete /\ ~IsPast(event.date, now, offset)
       /\ todayBookings[event.who] < MaxPerDay)
        => event.outcome = "accepted"

\* C8 witness: both sessions cached a count of 1, both then booked for today,
\* and the patient has 3 appointments dated today.
C8_Witness ==
    /\ \A s \in Sessions : sessUser[s] = "p1" /\ todayBookings[s] = MaxPerDay - 1
                             /\ bkSuccess[s]
    /\ CountOnDate(appointments, "p1", UtcDate(now)) > MaxPerDay

\* the calendar day before the client's current day, and before the UTC day
Yesterdays == {LocalDate(now, offset) - 1, UtcDate(now) - 1}

\* C9: a submission dated yesterday is rejected and no addDoc is issued,
\* whatever the other fields and the cached count.
C9_YesterdayRejected ==
    (Submitted /\ event.date \in Yesterdays)
        => (event.outcome # "accepted" /\ bkWrite[event.who] = NoWrite)

\* C9 witness: a submission dated yesterday, complete and below the cap, was
\* rejected by the past-date check.
C9_Witness ==
    /\ Submitted
    /\ event.date = LocalDate(now, offset) - 1
    /\ event.complete
    /\ todayBookings[event.who] < MaxPerDay
    /\ event.outcome = "past"

\* C10: a complete submission below the cap is rejected as past exactly when
\* its date is earlier than the client's current calendar date.
C10_DateOnlyComparison ==
    (Submitted /\ event.complete /\ event.outcome # "cap")
        => (event.outcome = "past" <=> event.date < LocalDate(now, offset))

C12_CreatedPending ==
    [][/\ (event'.op = "handleSubmit" /\ event' # event /\ event'.outcome = "accepted")
          => /\ bkWrite'[event'.who].status = "pending"
             /\ bkWrite'[event'.who].patientId = sessUser[event'.who]
             /\ bkWrite'[event'.who].doctorId = event'.doctorId
             /\ event'.doctorId \in Doctors
       /\ \A i \in Ids(appointments') \ Ids(appointments) :
             /\ event'.op = "addDocResolve"
             /\ appointments'[i] = bkWrite[event'.who]
             /\ appointments'[i].status = "pending"
             /\ appointments'[i].patientId = sessUser[event'.who]
             /\ appointments'[i].doctorId \in Doctors]_vars

\* C12: both patients have booked, with different doctors, and the stored
\* documents are pending.
C12_Witness ==
    /\ Len(appointments) >= 2
    /\ \E i, j \in Ids(appointments) :
          /\ appointments[i].patientId = "p1" /\ appointments[i].doctorId = "d2"
          /\ appointments[j].patientId = "p2" /\ appointments[j].doctorId = "d1"
          /\ appointments[i].status = "pending" /\ appointments[j].status = "pending"

(***************************************************************************)
(* Appointment lifecycle and prescriptions                                 *)
(***************************************************************************)

\* the transition table of the lifecycle
Allowed(status) ==
    CASE status = "pending" -> {"confirmed", "cancelled"}
      [] status = "confirmed" -> {"in_progress", "cancelled"}
      [] status = "in_progress" -> {"completed"}
      [] OTHER -> {}

\* C1: an appointment is created pending, and every change of its stored
\* status is a step of the transition table.
C1_StatusFollowsTable ==
    [][/\ \A i \in Ids(appointments) :
              appointments'[i].status # appointments[i].status
                  => appointments'[i].status \in Allowed(appointments[i].status)
       /\ \A i \in Ids(appointments') \ Ids(appointments) :
              appointments'[i].status = "pending"]_vars

\* C4: the prescriptions collection holds at most one record for any
\* appointmentId.
C4_OnePrescriptionPerAppointment ==
    \A i, j \in Ids(prescriptions) :
        i # j => prescriptions[i].appointmentId # prescriptions[j].appointmentId

\* C5: when a prescription record is created, the stored status of the
\* appointment it references is completed.
C5_CompletedAtCreation ==
    [][\A i \in Ids(prescriptions') \ Ids(prescriptions) :
           appointments[prescriptions'[i].appointmentId].status = "completed"]_vars

\* C7: a stored status of completed or cancelled never changes again.
C7_TerminalNeverChanges ==
    [][\A i \in Ids(appointments) :
           appointments[i].status \in {"completed", "cancelled"}
               => appointments'[i].status = appointments[i].status]_vars

\* a text that is empty or holds only spaces
Blank(str) == \A i \in 1..Len(str) : str[i] = " "

\* the form of view v has a diagnosis and a medication entry with a name
FormValid(v) ==
    /\ ~Blank(rxDiagnosis[v])
    /\ \E i \in 1..Len(rxMeds[v]) : ~Blank(rxMeds[v][i].name)

\* C13: a submission of the prescription form whose diagnosis is blank, or
\* none of whose medication entries has a name after trimming, is refused and
\* starts no write; every write started and every prescription stored has a
\* diagnosis and only named medications, at least one.
C13_PrescriptionValidated ==
    [][/\ \A v \in Views :
              Len(rxWrites'[v]) > Len(rxWrites[v]) => FormValid(v)
       /\ (event'.op = "createPrescription" /\ event' # event /\ ~FormValid(event'.who))
              => /\ event'.outcome # "accepted"
                 /\ rxWrites' = rxWrites
                 /\ prescriptions' = prescriptions
       /\ \A i \in Ids(prescriptions') \ Ids(prescriptions) :
              /\ ~Blank(prescriptions'[i].diagnosis)
              /\ prescriptions'[i].medications # <<>>
              /\ \A k \in 1..Len(prescriptions'[i].medications) :
                     ~Blank(prescriptions'[i].medications[k].name)]_vars

\* C13: a form with a diagnosis and two medication entries, one without a
\* name and one whose name is a space, has been submitted and refused.
C13_Witness ==
    /\ event.op = "createPrescription"
    /\ event.outcome = "medications"
    /\ FormMounted(event.who)
    /\ ~Blank(rxDiagnosis[event.who])
    /\ Len(rxMeds[event.who]) = 2
    /\ \E i \in 1..2 : rxMeds[event.who][i].name = <<" ">>
    /\ prescriptions = <<>> /\ rxWrites[event.who] = <<>>

(***************************************************************************)
(* Feedback                                                                *)
(***************************************************************************)

\* C14: a feedback submission with a rating outside 1..5 (the stars give 1..5
\* and the reset gives 0) is refused and starts no write; a write is started
\* only with a rating in 1..5 on a selected appointment; when the write
\* succeeds exactly one record is added to the collection, it is in the list
\* of the view and its appointment is no longer offered for review; no record
\* leaves the collection or a view's list afterwards.
C14_FeedbackRatingChecked ==
    [][/\ (event'.op = "submitFeedback" /\ event' # event
             /\ rating[event'.who] \notin 1..5)
          => /\ event'.outcome = "rating"
             /\ fbWrite' = fbWrite
             /\ feedback' = feedback
       /\ \A f \in FViews :
             (fbWrite[f] = NoFeedback /\ fbWrite'[f] # NoFeedback)
                 => /\ rating[f] \in 1..5
                    /\ fbSelected[f] # NoId
                    /\ fbWrite'[f].doc.rating = rating[f]
                    /\ fbWrite'[f].doc.appointmentId = fbSelected[f]
       /\ feedback' # feedback
          => \E f \in FViews :
                /\ fbWrite[f] # NoFeedback
                /\ feedback' = Append(feedback, fbWrite[f].doc)
                /\ fbWrite[f].doc.rating \in 1..5
                /\ \E k \in 1..Len(existingFeedback'[f]) :
                       existingFeedback'[f][k] = fbWrite[f].doc
                /\ \A id \in completedAppointments'[f] :
                       id = fbWrite[f].doc.appointmentId
                           => \E k \in 1..Len(existingFeedback'[f]) :
                                  existingFeedback'[f][k].appointmentId = id
       /\ \A f \in FViews : \A k \in 1..Len(existingFeedback[f]) :
             /\ k <= Len(existingFeedback'[f])
             /\ existingFeedback'[f][k] = existingFeedback[f][k]]_vars

\* C14: one feedback record is stored and listed in the view that wrote it,
\* and a later submission with rating 0 on a selected appointment has been
\* refused.
C14_Witness ==
    /\ event.op = "submitFeedback" /\ event.outcome = "rating"
    /\ fbSelected[event.who] # NoId /\ rating[event.who] = 0
    /\ Len(feedback) = 1
    /\ \E f \in FViews : existingFeedback[f] = <<feedback[1]>>

\* C15: every feedback record created references an appointment of the
\* requesting patient whose stored status is completed and for which the
\* collection holds no feedback of that patient yet.
C15_FeedbackOnlyForCompleted ==
    [][\A i \in Ids(feedback') \ Ids(feedback) :
          LET fb == feedback'[i] IN
            /\ fb.appointmentId \in Ids(appointments)
            /\ appointments[fb.appointmentId].patientId = fb.patientId
            /\ appointments[fb.appointmentId].status = "completed"
            /\ \A j \in Ids(feedback) :
                   ~(feedback[j].appointmentId = fb.appointmentId
                       /\ feedback[j].patientId = fb.patientId)]_vars

\* the fields of an appointment other than its status
Created(apt) == [apt EXCEPT !.status = "pending"]

\* C19: an appointment is never deleted; no step changes its patientId,
\* doctorId, date, time or note; a status write is issued only from a view
\* signed in as the doctor whose id is the appointment's doctorId, and a
\* stored status changes only when such a write settles.
C19_OnlyStatusByAssignedDoctor ==
    [][/\ Len(appointments') >= Len(appointments)
       /\ \A i \in Ids(appointments) : Created(appointments'[i]) = Created(appointments[i])
       /\ \A v \in Views :
             Len(mWrites'[v]) > Len(mWrites[v])
                => LET w == mWrites'[v][Len(mWrites'[v])] IN
                     /\ w.id \in Ids(appointments)
                     /\ appointments[w.id].doctorId = viewUser[v]
       /\ \A i \in Ids(appointments) :
             appointments'[i].status # appointments[i].status
                => \E v \in Views :
                      /\ viewUser[v] = appointments[i].doctorId
                      /\ mWrites[v] # <<>>
                      /\ Head(mWrites[v]).id = i
                      /\ appointments'[i].status = Head(mWrites[v]).status
                      /\ mWrites'[v] = Tail(mWrites[v])]_vars

\* C19: the appointments of two doctors are stored and each doctor has
\* changed the status of their own.
C19_Witness ==
    /\ Len(appointments) = 2
    /\ appointments[1].doctorId # appointments[2].doctorId
    /\ appointments[1].status = "confirmed"
    /\ appointments[2].status = "cancelled"
    /\ \A i \in {1, 2} : appointments[i].date = StartDay + 1 /\ appointments[i].note = "n"

\* C20: when the status write of updateAppointmentStatus fails, the stored
\* status and the status displayed in every list stay as they were, the
\* in-progress marker of the view is cleared, and no write is issued in its
\* place.
C20_FailedUpdateKeepsStatus ==
    [][\A v \in Views :
          (mWrites[v] # <<>> /\ mWrites'[v] = Tail(mWrites[v])
             /\ event'.op = "updateFailed")
             => /\ event'.who = v /\ event'.id = Head(mWrites[v]).id
                /\ appointments' = appointments
                /\ mAppts' = mAppts
                /\ updating'[v] = NoId
                /\ \A u \in Views : Len(mWrites'[u]) <= Len(mWrites[u])]_vars

\* C20: a write that would have confirmed a pending appointment has failed;
\* the appointment is stored and displayed as pending, and nothing is in
\* flight.
C20_Witness ==
    /\ event.op = "updateFailed" /\ event.status = "confirmed"
    /\ appointments[event.id].status = "pending"
    /\ mAppts[event.who][event.id] = "pending"
    /\ updating[event.who] = NoId
    /\ \A v \in Views : mWrites[v] = <<>>

\* the path is one of the routes behind ProtectedRoute
Protected(path) == Len(path) = 2 /\ path[1] \in Roles /\ path[2] \in Pages

\* C18: a page behind ProtectedRoute is rendered only while a user is signed
\* in whose profile role is the role the route requires; resolving such a
\* route with nobody signed in navigates to /login; resolving it for a
\* signed-in user of the other role navigates to the dashboard of the user's
\* own role; and resolving the dashboard of the user's own role renders it
\* without a further redirect.
C18_ProtectedRoute ==
    [][/\ Protected(rendered')
          => /\ currentUser' # NoUser
             /\ userData' = rendered'[1]
             /\ rendered' = location'
       /\ (rendered = <<"none">> /\ Protected(location) /\ UNCHANGED <<currentUser, userData>>
             /\ origin' = origin /\ (hops' = hops + 1 \/ rendered' # <<"none">>))
          => /\ currentUser = NoUser
                => (location' = <<"login">> /\ rendered' = <<"none">>)
             /\ (currentUser # NoUser /\ userData \in Roles /\ userData # location[1])
                => (location' = <<userData, "dashboard">> /\ rendered' = <<"none">>)
             /\ (currentUser # NoUser /\ userData \in Roles
                   /\ location = <<userData, "dashboard">>)
                => (rendered' = location /\ location' = location /\ hops' = hops)
       /\ (Protected(rendered') /\ Protected(origin') /\ origin' # rendered')
          => (rendered' = <<userData', "dashboard">> /\ hops' = 1)]_vars

\* C18: a signed-in doctor asked for a patient page and the doctor dashboard
\* is rendered after one redirect.
C18_Witness ==
    /\ currentUser \in Doctors /\ userData = "doctor"
    /\ origin = <<"patient", "feedback">>
    /\ rendered = <<"doctor", "dashboard">>
    /\ hops = 1

\* C17: a prescription of appointment X is delivered only to the patient of
\* X and the doctor of X: every document the store hands to the
\* prescriptions page of a doctor is of an appointment of that doctor, and
\* every document handed to the page of a patient is of an appointment of
\* that patient.
C17_PrescriptionReadersOnly ==
    /\ \A i \in 1..Len(dpSnapshot) :
          appointments[dpSnapshot[i].appointmentId].doctorId = dpUser
    /\ \A i \in 1..Len(dpPrescriptions) :
          appointments[dpPrescriptions[i].appointmentId].doctorId = dpUser
    /\ \A i \in 1..Len(vpPrescriptions) :
          appointments[vpPrescriptions[i].appointmentId].patientId = vpUser

\* the statistics have been calculated from the list shown
Calculated == ~dfLoading /\ dfFeedback = dfQuery

\* C16: for any list of feedback rated 1..5 the statistics calculated are
\* totalReviews = the length of the list, ratingDistribution[r] = the number
\* of records rated r (the five counts summing to totalReviews),
\* withComments = the number of records with a non-blank comment, and
\* averageRating = the mean rounded half-up to one decimal, here in tenths
\* (0 for the empty list); for [5,4,5,3] they are 4, {1:0,2:0,3:1,4:1,5:2}
\* and 4.3.
C16_CalculateStats ==
    Calculated =>
        LET n == Len(dfFeedback)
            total == SumRatings(dfFeedback)
            dist == dfStats.ratingDistribution
        IN /\ dfStats.totalReviews = n
           /\ \A r \in 1..5 :
                 dist[r] = Cardinality({i \in 1..n : dfFeedback[i].rating = r})
           /\ dist[1] + dist[2] + dist[3] + dist[4] + dist[5] = n
           /\ dfStats.withComments
                 = Cardinality({i \in 1..n : ~Blank(dfFeedback[i].comment)})
           /\ n = 0 => dfStats.averageRating = 0
           /\ n > 0 => /\ 2 * n * dfStats.averageRating <= 20 * total + n
                        /\ 20 * total + n < 2 * n * (dfStats.averageRating + 1)
           /\ [i \in 1..n |-> dfFeedback[i].rating] = <<5, 4, 5, 3>>
                 => /\ dfStats.totalReviews = 4
                    /\ dfStats.averageRating = 43
                    /\ dist = <<0, 0, 1, 1, 2>>

\* C16: the statistics of a list rated [5,4,5,3] have been calculated.
C16_Witness ==
    /\ Calculated
    /\ Len(dfFeedback) = 4
    /\ [i \in 1..4 |-> dfFeedback[i].rating] = <<5, 4, 5, 3>>
    /\ dfStats.averageRating = 43
    /\ dfStats.withComments > 0

\* C6: the feedback collection holds at most one record with a given
\* appointmentId and patientId.
C6_OneFeedbackPerAppointment ==
    \A i, j \in Ids(feedback) :
        i # j => \/ feedback[i].appointmentId # feedback[j].appointmentId
                 \/ feedback[i].patientId # feedback[j].patientId
\* C21: a status write whose target is not in the allowed set of the
\* appointment's stored status leaves the stored status as it is when it
\* settles, also when the view that issued it displays an older status
\* because another view of the doctor changed the appointment meanwhile.
C21_DisallowedTargetRejected ==
    [][\A v \in Views :
          (mWrites[v] # <<>> /\ mWrites'[v] = Tail(mWrites[v])
             /\ Head(mWrites[v]).status
                    \notin Allowed(appointments[Head(mWrites[v]).id].status))
             => appointments'[Head(mWrites[v]).id].status
                    = appointments[Head(mWrites[v]).id].status]_vars
\* the positions of the form entries of view v whose name is not blank
Named(v) == {i \in 1..Len(rxMeds[v]) : ~Blank(rxMeds[v][i].name)}

\* C22: the medications of a prescription handed to addDoc are the form
\* entries with a non-blank name, in the order of the form, each with its
\* name, dosage, frequency, duration and instructions as entered; and the
\* document stored is the document handed to addDoc.
C22_NamedMedicationsStored ==
    [][/\ \A v \in Views :
             Len(rxWrites'[v]) > Len(rxWrites[v])
                => LET meds == rxWrites'[v][Len(rxWrites'[v])].doc.medications IN
                     /\ Len(meds) = Cardinality(Named(v))
                     /\ \A i \in Named(v) :
                            meds[Cardinality({j \in Named(v) : j <= i})] = rxMeds[v][i]
       /\ \A i \in Ids(prescriptions') \ Ids(prescriptions) :
             \E v \in Views :
                /\ rxWrites[v] # <<>>
                /\ prescriptions'[i] = Head(rxWrites[v]).doc]_vars

\* C22: a form whose first entry has a blank name and a dosage and whose
\* second entry has a padded name has been submitted; the document handed to
\* addDoc holds the second entry alone.
C22_Witness ==
    /\ Len(rxWrites["v1"]) = 1
    /\ Len(rxMeds["v1"]) = 2
    /\ rxMeds["v1"][1].name = <<" ">> /\ rxMeds["v1"][1].dosage = "1mg"
    /\ rxMeds["v1"][2].name = <<"m", " ">>
    /\ rxWrites["v1"][1].doc.medications = <<rxMeds["v1"][2]>>
\* C23: in a view, the status writes in flight are for different
\* appointments: while a write for an appointment is in flight no second
\* write for it is issued, whatever the doctor does on other rows meanwhile.
C23_OneWriteInFlightPerAppointment ==
    \A v \in Views : \A i, j \in 1..Len(mWrites[v]) :
        i # j => mWrites[v][i].id # mWrites[v][j].id
\* C24: in a single session with no other writer, a submission that passes
\* the cap check has been checked against a cached count equal to the number
\* of the patient's stored appointments dated today.
C24_CapCheckedAgainstCurrentCount ==
    (Submitted /\ event.outcome # "cap")
        => todayBookings[event.who]
              = CountOnDate(appointments, sessUser[event.who], UtcDate(now))
\* the patient's appointments of the day with a status in the given set
OnDayWith(uid, day, statuses) ==
    {i \in Ids(appointments) :
        /\ appointments[i].patientId = uid
        /\ appointments[i].date = day
        /\ appointments[i].status \in statuses}

\* C25: the count that checkTodayBookings caches is the number of the
\* patient's appointments of the day in any status, the cancelled ones
\* included; and a submission made when the count has arrived and the
\* patient has 2 appointments today, cancelled or not, is rejected with the
\* cap error and stores nothing.
C25_CancelledStillCounts ==
    [][/\ \A s \in Sessions :
             (bkCount[s] # <<>> /\ bkCount'[s] = Tail(bkCount[s])
                /\ event'.op = "checkTodayBookings")
                => todayBookings'[s]
                      = Cardinality(OnDayWith(sessUser[s], Head(bkCount[s]), {"cancelled"}))
                        + Cardinality(OnDayWith(sessUser[s], Head(bkCount[s]),
                                                Status \ {"cancelled"}))
       /\ (event'.op = "handleSubmit" /\ event' # event
             /\ Cardinality(OnDayWith(sessUser[event'.who], UtcDate(now), Status))
                   >= MaxPerDay)
             => /\ event'.outcome = "cap"
                /\ bkWrite' = bkWrite
                /\ appointments' = appointments]_vars

\* C25: the patient has two appointments today, one of them cancelled by the
\* doctor, the count cached is 2 and a further submission has been rejected
\* with the cap error.
C25_Witness ==
    /\ Submitted /\ event.outcome = "cap"
    /\ todayBookings["s1"] = MaxPerDay
    /\ Len(appointments) = MaxPerDay
    /\ Cardinality(OnDayWith("p1", UtcDate(now), {"cancelled"})) = 1
\* C26: with one doctor view as the only writer of statuses, whenever no
\* status write is in flight every appointment in the list of the view is
\* displayed with its stored status.
C26_DisplayedIsStored ==
    (\A v \in Views : mWrites[v] = <<>>)
        => \A v \in Views : \A id \in DOMAIN mAppts[v] :
              mAppts[v][id] = appointments[id].status

\* C26: the view lists two appointments; an update of the first succeeded,
\* the last update failed, nothing is in flight, and the list shows what is
\* stored.
C26_Witness ==
    /\ event.op = "updateFailed"
    /\ \A v \in Views : mWrites[v] = <<>>
    /\ DOMAIN mAppts["v1"] = {1, 2}
    /\ mAppts["v1"][1] = "confirmed" /\ appointments[1].status = "confirmed"
    /\ mAppts["v1"][2] = "pending" /\ appointments[2].status = "pending"
    /\ event.id = 2
\* C27: a feedback document handed to addDoc carries the id of the
\* appointment selected in the view and the uid of the signed-in patient;
\* every record that enters the collection is such a document, and its
\* doctorId, doctorName and patientId are those of the stored appointment it
\* references.
C27_FeedbackAttributed ==
    [][/\ \A f \in FViews :
             (fbWrite[f] = NoFeedback /\ fbWrite'[f] # NoFeedback)
                => /\ fbWrite'[f].doc.appointmentId = fbSelected[f]
                   /\ fbWrite'[f].doc.patientId = fbUser[f]
       /\ \A i \in Ids(feedback') \ Ids(feedback) :
             LET fb == feedback'[i] IN
               /\ \E f \in FViews : fbWrite[f] # NoFeedback /\ fb = fbWrite[f].doc
               /\ fb.appointmentId \in Ids(appointments)
               /\ fb.doctorId = appointments[fb.appointmentId].doctorId
               /\ fb.doctorName = appointments[fb.appointmentId].doctorName
               /\ fb.patientId = appointments[fb.appointmentId].patientId]_vars

\* C27: feedback of the first patient for the second doctor and of the
\* second patient for the first doctor is stored.
C27_Witness ==
    /\ Len(feedback) = 2
    /\ \E i, j \in Ids(feedback) :
          /\ feedback[i].patientId = "p1" /\ feedback[i].doctorId = "d2"
          /\ feedback[i].doctorName = "Dr Two" /\ feedback[i].appointmentId = 3
          /\ feedback[j].patientId = "p2" /\ feedback[j].doctorId = "d1"
          /\ feedback[j].doctorName = "Dr One" /\ feedback[j].appointmentId = 2
\* C28: when the addDoc of a feedback submission fails, nothing is stored,
\* the view's feedback list, selected appointment, rating and comment are as
\* they were, the appointment of the submission is still offered for review,
\* and submitting is false again, so that the form can be submitted again.
C28_FailedFeedbackKeepsForm ==
    [][\A f \in FViews :
          (fbWrite[f] # NoFeedback /\ fbWrite'[f] = NoFeedback /\ feedback' = feedback)
             => /\ existingFeedback'[f] = existingFeedback[f]
                /\ fbSelected'[f] = fbSelected[f]
                /\ rating'[f] = rating[f]
                /\ comment'[f] = comment[f]
                /\ completedAppointments'[f] = completedAppointments[f]
                /\ fbWrite[f].doc.appointmentId \in completedAppointments'[f]
                /\ \A k \in 1..Len(existingFeedback'[f]) :
                       existingFeedback'[f][k].appointmentId # fbWrite[f].doc.appointmentId
                /\ ~submitting'[f]
                /\ fbSelected'[f] # NoId /\ ~fbLoading'[f]]_vars

\* C28: a submission with rating 5 and a comment was accepted by the check,
\* its write has failed, nothing is stored and the form still holds the
\* selection, the rating and the comment.
C28_Witness ==
    /\ event.op = "submitFeedback" /\ event.outcome = "accepted"
    /\ fbWrite["f1"] = NoFeedback /\ ~submitting["f1"]
    /\ feedback = <<>> /\ existingFeedback["f1"] = <<>>
    /\ fbSelected["f1"] = 1 /\ rating["f1"] = 5 /\ comment["f1"] = <<" ", "c">>

\* no fetch of any mounted data view is in flight
AllSettled ==
    /\ \A v \in MountedViews : mFetch[v] = 0
    /\ \A f \in MountedFViews : fbStage[f] = "done"
    /\ dpStage = "done"
    /\ ~dfLoading
    /\ ~vpLoading
    /\ ddFetch = {}
    /\ pdFetch = {}

\* no mounted data view shows its loading state; DoctorPrescriptions,
\* DoctorFeedback and ViewPrescriptions are loading exactly while their
\* fetch is in flight
NoneLoading ==
    /\ \A v \in MountedViews : ~mLoading[v]
    /\ \A f \in MountedFViews : ~fbLoading[f]
    /\ dpStage = "done"
    /\ ~dfLoading
    /\ ~vpLoading
    /\ ~ddLoading
    /\ ~pdLoading

FieldInputs ==
    ({"name"} \X {<<" ">>, <<"m", " ">>}) \cup ((MedFields \ {"name"}) \X {"1mg"})

\* C30: the medication list of the prescription form always has at least
\* one entry; removeMedication on a one-entry list changes nothing; and
\* updateMedication keeps the length of the list, every other entry and
\* every other field of the entry at the index, and sets the named field.
C30_MedicationListNeverEmpty ==
    /\ \A v \in Views : Len(rxMeds[v]) >= 1
    /\ [][\A v \in Views :
            /\ Len(rxMeds'[v]) >= 1
            /\ \A i \in 1..MaxMeds :
                  (Len(rxMeds[v]) = 1 /\ RemoveMedication(v, i)) => rxMeds' = rxMeds
            /\ \A i \in 1..MaxMeds, in \in FieldInputs :
                  UpdateMedication(v, i, in[1], in[2]) =>
                      /\ Len(rxMeds'[v]) = Len(rxMeds[v])
                      /\ \A j \in 1..Len(rxMeds[v]) : j # i => rxMeds'[v][j] = rxMeds[v][j]
                      /\ \A g \in MedFields \ {in[1]} : rxMeds'[v][i][g] = rxMeds[v][i][g]
                      /\ rxMeds'[v][i][in[1]] = in[2]]_vars

\* C30: an entry was added and the name and the dosage of the first entry
\* were typed: the second entry is still blank and the other fields of the
\* first are untouched.
C30_Witness ==
    /\ Len(rxMeds["v1"]) = 2
    /\ rxMeds["v1"][1] = [BlankMed EXCEPT !.name = <<"m", " ">>, !.dosage = "1mg"]
    /\ rxMeds["v1"][2] = BlankMed

====
